---- MODULE Spec2Model ----
(***************************************************************************)
(* Model of the Houdini adaptor (deadline/houdini_adaptor/HoudiniAdaptor/  *)
(* adaptor.py): the main thread running the lifecycle operations, the      *)
(* control-server thread, the hython subprocess with the reader that       *)
(* classifies its output lines, and the asynchronous cancel request.       *)
(***************************************************************************)
EXTENDS Integers, Sequences, FiniteSets, TLC

(***************************************************************************)
(* Bounds of the model.                                                    *)
(***************************************************************************)
\* number of lifecycle operations (on_start, on_run, on_stop, on_cleanup) called
MaxCalls == 2
\* number of output lines the reader classifies
MaxLines == 2

(***************************************************************************)
(* Program constants.                                                      *)
(***************************************************************************)
SERVER_START_TIMEOUT_SECONDS == 30
SERVER_END_TIMEOUT_SECONDS == 30
HOUDINI_START_TIMEOUT_SECONDS == 300
HOUDINI_END_TIMEOUT_SECONDS == 30

REQUIRED_HOUDINI_INIT_KEYS == <<"scene_file", "render_node">>
OPTIONAL_HOUDINI_INIT_KEYS == {"ignore_input_nodes", "wedgenum", "wedge_node"}
HOUDINI_RUN_KEYS == {"frame"}

(***************************************************************************)
(* Text.  A text is a sequence of one-character strings; a literal of the  *)
(* source that is never searched is kept as one element.                   *)
(***************************************************************************)
\* position (0-based, as str.index) of the first occurrence of sub in s, -1 if none
IndexOf(s, sub) ==
    LET hits == {i \in 0..(Len(s) - Len(sub)) : SubSeq(s, i + 1, i + Len(sub)) = sub}
    IN  IF hits = {} THEN -1 ELSE CHOOSE i \in hits : \A j \in hits : i <= j

Contains(s, sub) == IndexOf(s, sub) >= 0

UpperCase == <<"A","B","C","D","E","F","G","H","I","J","K","L","M",
               "N","O","P","Q","R","S","T","U","V","W","X","Y","Z">>
LowerCase == <<"a","b","c","d","e","f","g","h","i","j","k","l","m",
               "n","o","p","q","r","s","t","u","v","w","x","y","z">>

LowerChar(c) ==
    IF \E i \in 1..26 : UpperCase[i] = c
    THEN LowerCase[CHOOSE i \in 1..26 : UpperCase[i] = c]
    ELSE c

Lower(s) == [i \in 1..Len(s) |-> LowerChar(s[i])]

DigitChars == <<"0","1","2","3","4","5","6","7","8","9">>
IsDigit(c) == \E d \in 1..10 : DigitChars[d] = c
DigitValue(c) == (CHOOSE d \in 1..10 : DigitChars[d] = c) - 1

RECURSIVE NatStr(_)
NatStr(n) == IF n < 10 THEN <<DigitChars[n + 1]>>
             ELSE NatStr(n \div 10) \o <<DigitChars[(n % 10) + 1]>>

\* str(n) of an integer
IntStr(n) == IF n < 0 THEN <<"-">> \o NatStr(0 - n) ELSE NatStr(n)

(***************************************************************************)
(* Output lines of the subprocess.                                         *)
(***************************************************************************)
FinishedLine == <<"F","i","n","i","s","h","e","d"," ","R","e","n","d","e","r","i","n","g">>
ProgressLine == <<"A","L","F","_","P","R","O","G","R","E","S","S"," ","5","%">>
ErrorLine == <<"E","r","r","o","r",":"," ","b","o","o","m">>
LicenseLine == <<"R","u","n","t","i","m","e","E","r","r","o","r",":"," ","E","r","r","o","r"," ",
                 "e","n","c","o","u","n","t","e","r","e","d"," ","w","h","e","n"," ",
                 "i","n","i","t","i","a","l","i","z","i","n","g"," ","H","o","u","d","i","n","i">>

VersionLine == <<"H","o","u","d","i","n","i","C","l","i","e","n","t",":"," ",
                 "H","o","u","d","i","n","i"," ","V","e","r","s","i","o","n"," ",
                 "2","0",".","0",".","5","0","6">>

\* the version line of a build whose version string has no patch component
ShortVersionLine == SubSeq(VersionLine, 1, Len(VersionLine) - 4)

\* the line Houdini prints with Alfred style progress at n percent
ProgressLineOf(n) == SubSeq(ProgressLine, 1, 13) \o NatStr(n) \o <<"%">>
Percentages == 0..100
\* a percentage written with more than three digits
LongPercentage == 1234

\* lines with the progress marker twice: the text after the first marker is not the
\* percentage the pattern matched
SignedMarkerLine == SubSeq(ProgressLine, 1, 13) \o <<"-","5"," ">> \o ProgressLine
WordMarkerLine == SubSeq(ProgressLine, 1, 13) \o <<"o","f"," ">> \o ProgressLine
MarkerLines == {SignedMarkerLine, WordMarkerLine}

\* the lines that steer the lifecycle, and the lines that only report status
Lines == {FinishedLine, ErrorLine, LicenseLine}
StatusLines(percentages) ==
    {ProgressLineOf(n) : n \in percentages} \cup {VersionLine, ShortVersionLine}

\* free bytes reported by shutil.disk_usage when a license error is handled
FreeBytes == {3 * 1024 * 1024 + 17}

\* exit codes of a subprocess that exits on its own
ExitCodes == {1}
\* return code of a subprocess ended by terminate(): SIGTERM, or SIGKILL after the grace time
SIGTERM == 0 - 15
SIGKILL == 0 - 9

(***************************************************************************)
(* Initialization payloads.                                                *)
(***************************************************************************)
BasicInitData == ("scene_file" :> "scene.hip") @@ ("render_node" :> "/out/mantra1")

InitDatas == { BasicInitData,
               BasicInitData @@ ("strict_error_checking" :> TRUE),
               ("render_node" :> "/out/mantra1") }

\* the payloads with every choice of the optional keys
OptionalValues == ("ignore_input_nodes" :> TRUE) @@ ("wedgenum" :> 2)
                  @@ ("wedge_node" :> "/obj/wedge1")
OptionalInitDatas == { BasicInitData @@ [key \in keys |-> OptionalValues[key]] :
                           keys \in SUBSET OPTIONAL_HOUDINI_INIT_KEYS }

\* run_data["frame"] of the tasks, as the text the runtime hands over; "x" is not a number
RunFrames == {<<"1">>, <<"x">>}

(***************************************************************************)
(* Exceptions and outcomes of the lifecycle operations.                    *)
(***************************************************************************)
Exception(type, msg) == [type |-> type, msg |-> msg]

Pending(op) == [op |-> op, type |-> "pending", msg |-> <<>>]
Returned(op) == [op |-> op, type |-> "returned", msg |-> <<>>]
Raised(op, exc) == [op |-> op, type |-> exc.type, msg |-> exc.msg]

SocketError ==
    Exception("RuntimeError",
              <<"Could not find a socket because the server did not finish initializing">>)

StartTimeoutError ==
    Exception("TimeoutError",
              <<"Houdini did not complete initialization actions in ">>
              \o IntStr(HOUDINI_START_TIMEOUT_SECONDS)
              \o <<" seconds and failed to start.">>)

InitFailedError ==
    Exception("RuntimeError",
              <<"Houdini encountered an error and was not able to complete ">>
              \o <<"initialization actions.">>)

NotRunningError ==
    Exception("HoudiniNotRunningError", <<"Cannot render because Houdini is not running.">>)

ExitedEarlyError(exit_code) ==
    Exception("HoudiniNotRunningError",
              <<"Houdini exited early and did not render successfully, please check render logs. ">>
              \o <<"Exit code ">> \o IntStr(exit_code))

ValidationError == Exception("ValidationError", <<>>)

NotGracefulLog ==
    "Houdini did not complete cleanup actions and failed to gracefully shutdown. Terminating."
ServerShutdownLog == "Failed to shutdown the Houdini Adaptor server."
CancelRequestedLog == "CANCEL REQUESTED"
NothingToCancelLog == "Nothing to cancel because Houdini is not running"

(***************************************************************************)
(* State.                                                                  *)
(***************************************************************************)
VARIABLES
    pc,                 \* position of the main thread
    outcome,            \* the operation the main thread runs or ran last, and how it ended
    ncalls,             \* lifecycle operations called so far
    init_data,          \* the initialization payload of the session
    server,             \* _server: "none", "created" (server_path is None), "ready"
    server_thread,      \* _server_thread: "none", "alive", "dead"
    shutdown_requested, \* _server.shutdown() was called
    houdini_client,     \* _houdini_client: state "none", "running", "exited"; returncode
    action_queue,       \* _action_queue
    is_rendering,       \* _is_rendering
    exc_info,           \* _exc_info, the pending-exception slot
    performing_cleanup, \* _performing_cleanup
    progress,           \* progress last reported with update_status, -1 before any report
    houdini_version,    \* _houdini_version
    timed_out,          \* value of is_timed_out() of the timer made last
    reader,             \* line handed to emit last, the rule to run next (0: emit is over)
                        \* and the exception that ended the emit
    nlines,             \* lines classified so far
    log,                \* messages logged since the current operation was called
    started,            \* history: on_start was called
    run_frame,          \* run_data["frame"] of the task on_run works on
    staged_in_wait,     \* history: a fatal condition was staged during the current wait
    first_trip,         \* history: what happened first during the current wait
    client_main,        \* main() of houdini_client.py in the subprocess: environment, state
    rop_node,           \* the Deadline Cloud render node, its scene and the configured IDs
    submitter,          \* what the last submit_callback did
    handler,            \* the HoudiniHandler of the client in the subprocess
    regex_callbacks,    \* _regex_callbacks: the cached rule list, <<>> is None
    legacy              \* the legacy variant of the adaptor, run beside the current one

vars == <<pc, outcome, ncalls, init_data, server, server_thread, shutdown_requested,
          houdini_client, action_queue, is_rendering, exc_info, performing_cleanup,
          progress, houdini_version, timed_out, reader, nlines, log, started, run_frame,
          staged_in_wait, first_trip, client_main, rop_node, submitter, handler,
          regex_callbacks, legacy>>

serverVars == <<server, server_thread, shutdown_requested>>
handlerVars == <<is_rendering, exc_info, progress, houdini_version>>
readerVars == <<reader, nlines>>
histVars == <<staged_in_wait, first_trip>>
toolVars == <<client_main, rop_node, submitter, handler, regex_callbacks, legacy>>

NoException == [type |-> "None", msg |-> <<>>]

\* no legacy adaptor runs beside the current one
NoLegacy == [pc |-> "none", outcome |-> [op |-> "none", type |-> "none", msg |-> <<>>],
             action_queue |-> <<>>, timed_out |-> FALSE]

\* main() of houdini_client.py has not run
NoClientMain == [env |-> "None", exists |-> FALSE, state |-> "none", error |-> NoException,
                 stdout |-> <<>>]

\* HoudiniHandler.__init__: no node, no wedge, render_kwargs holds ignore_input_nodes only
\* (frame <<>>: no such key), and the attribute that is set to None is "wegenum", so
\* "wedgenum" does not exist (<<>>) until set_wedge_num has set it.  handled, renders and
\* printed record the actions that were handled, the calls of node.render that returned and
\* the number of completion markers printed.
NoHandler == [node |-> "None", wedge |-> "None", wedgenum |-> <<>>, frame |-> <<>>,
              ignore_input_nodes |-> TRUE, error |-> NoException, handled |-> <<>>,
              renders |-> <<>>, printed |-> 0]

\* a render node with one unlocked input in a saved scene that lists its hip file
BasicRopNode == [inputs |-> TRUE, locked |-> FALSE, auto_unlock |-> FALSE, hip_input |-> TRUE,
                 auto_parse |-> FALSE, unsaved |-> FALSE, auto_save |-> FALSE,
                 farm_id |-> "farm-1", queue_id |-> "queue-1"]

\* submit_callback has done nothing: no message shown, no parameter of the node read, no
\* save, no API client obtained, no job bundle created, no submission started
NoSubmission == [messages |-> <<>>, parm_read |-> FALSE, saves |-> 0, api_client |-> FALSE,
                 job_bundle |-> FALSE, submission |-> FALSE]

StartWaitPcs == {"start_check_running", "start_check_exception", "start_check_queue",
                 "start_check_timer"}
RunWaitPcs == {"run_check_rendering", "run_check_exception"}

InitOf(datas, nodes) ==
    /\ pc = "idle"
    /\ outcome = [op |-> "none", type |-> "none", msg |-> <<>>]
    /\ ncalls = 0
    /\ init_data \in datas
    /\ server = "none"
    /\ server_thread = "none"
    /\ shutdown_requested = FALSE
    /\ houdini_client = [state |-> "none", returncode |-> 0]
    /\ action_queue = <<>>
    /\ is_rendering = FALSE
    /\ exc_info = NoException
    /\ performing_cleanup = FALSE
    /\ progress = 0 - 1
    /\ houdini_version = <<>>
    /\ timed_out = FALSE
    /\ reader = [line |-> <<>>, idx |-> 0, error |-> NoException]
    /\ nlines = 0
    /\ log = {}
    /\ started = FALSE
    /\ run_frame = 0
    /\ staged_in_wait = FALSE
    /\ first_trip = "none"
    /\ client_main = NoClientMain
    /\ rop_node \in nodes
    /\ submitter = NoSubmission
    /\ handler = NoHandler
    /\ regex_callbacks = <<>>
    /\ legacy = NoLegacy

InitWith(datas) == InitOf(datas, {BasicRopNode})

Init == InitWith(InitDatas)

(***************************************************************************)
(* Properties of the adaptor and the action queue.                         *)
(***************************************************************************)
\* mutant of HasException: the cleanup flag is not looked at
HasExceptionIgnoresCleanup(exc, cleaning) == IF exc # NoException THEN "raise" ELSE "false"

\* HoudiniAdaptor._has_exception: "raise" stands for raising exc_info
HasException(exc, cleaning) == IF exc # NoException /\ ~cleaning THEN "raise" ELSE "false"

HoudiniIsRunning(client) == client.state # "none" /\ client.state = "running"

HoudiniIsRendering(client, rendering) == HoudiniIsRunning(client) /\ rendering

\* Action(name, args) of the adaptor runtime; Action("close") has no arguments
Action(name, args) == [name |-> name, args |-> args]
CloseAction == Action("close", <<>>)

\* mutant of EnqueueAction: front is ignored, every action goes to the back
EnqueueActionAtBack(queue, action, front) == Append(queue, action)

EnqueueAction(queue, action, front) ==
    IF front THEN <<action>> \o queue ELSE Append(queue, action)

(***************************************************************************)
(* The regular expressions of _get_regex_callbacks, applied with search.   *)
(***************************************************************************)
FinishedText == <<"F","i","n","i","s","h","e","d"," ","R","e","n","d","e","r","i","n","g">>
AlfProgressText == <<"A","L","F","_","P","R","O","G","R","E","S","S"," ">>
ErrorColonText == <<"e","r","r","o","r",":"," ">>
ErrorBracketText == <<"[","e","r","r","o","r","]">>
HoudiniLicenseErrorText ==
    <<"R","u","n","t","i","m","e","E","r","r","o","r",":"," ","E","r","r","o","r"," ",
      "e","n","c","o","u","n","t","e","r","e","d"," ","w","h","e","n"," ",
      "i","n","i","t","i","a","l","i","z","i","n","g"," ","H","o","u","d","i","n","i">>
VersionText == <<"H","o","u","d","i","n","i","C","l","i","e","n","t",":"," ",
                 "H","o","u","d","i","n","i"," ","V","e","r","s","i","o","n"," ">>

\* number of digits at the start of s[from..]
RECURSIVE DigitRun(_, _)
DigitRun(s, from) ==
    IF from <= Len(s) /\ IsDigit(s[from]) THEN 1 + DigitRun(s, from + 1) ELSE 0

\* positions (1-based) where sub occurs in s
Occurrences(s, sub) ==
    {i \in 1..(Len(s) - Len(sub) + 1) : SubSeq(s, i, i + Len(sub) - 1) = sub}

\* ".*Finished Rendering.*"
MatchesCompleted(line) == Contains(line, FinishedText)

\* ".*ALF_PROGRESS ([0-9]+)%.*"
MatchesProgress(line) ==
    \E i \in Occurrences(line, AlfProgressText) :
        LET p == i + Len(AlfProgressText)
            n == DigitRun(line, p)
        IN  n >= 1 /\ p + n <= Len(line) /\ line[p + n] = "%"

\* ".*Error: .*|.*\\[Error\\].*" with re.IGNORECASE
MatchesError(line) ==
    Contains(Lower(line), ErrorColonText) \/ Contains(Lower(line), ErrorBracketText)

\* "RuntimeError: Error encountered when initializing Houdini"
MatchesLicenseError(line) == Contains(line, HoudiniLicenseErrorText)

\* "([0-9]+.[0-9]+)" at position p of line: its length, 0 if it does not match there.
\* The first [0-9]+ is greedy and gives digits back until "." and [0-9]+ can follow.
VersionGroup1Len(line, p) ==
    LET r == DigitRun(line, p)
        ks == {k \in 1..r : p + k <= Len(line) /\ DigitRun(line, p + k + 1) >= 1}
    IN  IF ks = {} THEN 0
        ELSE LET k == CHOOSE x \in ks : \A y \in ks : y <= x
             IN  k + 1 + DigitRun(line, p + k + 1)

\* "(.[0-9]+)?" at position p of line: its length, 0 if the group does not take part
VersionGroup2Len(line, p) ==
    IF p <= Len(line) /\ DigitRun(line, p + 1) >= 1 THEN 1 + DigitRun(line, p + 1) ELSE 0

\* "HoudiniClient: Houdini Version ([0-9]+.[0-9]+)(.[0-9]+)?": the leftmost match
VersionMatchStarts(line) ==
    {i \in Occurrences(line, VersionText) : VersionGroup1Len(line, i + Len(VersionText)) > 0}

MatchesVersion(line) == VersionMatchStarts(line) # {}

\* match.groups() of the version match; None is <<"None">>
VersionGroups(line) ==
    LET i  == CHOOSE x \in VersionMatchStarts(line) : \A y \in VersionMatchStarts(line) : x <= y
        p  == i + Len(VersionText)
        n1 == VersionGroup1Len(line, p)
        n2 == VersionGroup2Len(line, p + n1)
    IN  << SubSeq(line, p, p + n1 - 1),
           IF n2 = 0 THEN <<"None">> ELSE SubSeq(line, p + n1, p + n1 + n2 - 1) >>

\* mutant of RegexCallbacks: the error rule is registered whatever strict_error_checking is
RegexCallbacksAlwaysStrict(data) ==
    <<"_handle_complete", "_handle_progress", "_handle_error",
      "_handle_license_error", "_handle_houdini_version">>

\* the rule list of _get_regex_callbacks, each rule named after its handler
RegexCallbacks(data) ==
    <<"_handle_complete", "_handle_progress">>
    \o (IF "strict_error_checking" \in DOMAIN data /\ data["strict_error_checking"] = TRUE
        THEN <<"_handle_error">> ELSE <<>>)
    \o <<"_handle_license_error", "_handle_houdini_version">>

RuleMatches(rule, line) ==
    CASE rule = "_handle_complete" -> MatchesCompleted(line)
      [] rule = "_handle_progress" -> MatchesProgress(line)
      [] rule = "_handle_error" -> MatchesError(line)
      [] rule = "_handle_license_error" -> MatchesLicenseError(line)
      [] rule = "_handle_houdini_version" -> MatchesVersion(line)

\* RegexHandler.emit: index of the first rule from position from on that matches, 0 if none
NextRule(rules, line, from) ==
    LET js == {j \in from..Len(rules) : RuleMatches(rules[j], line)}
    IN  IF js = {} THEN 0 ELSE CHOOSE j \in js : \A k \in js : j <= k

\* mutant of GetRegexCallbacks: the list is made again at every request, without the
\* license rule once a list exists
GetRegexCallbacksRebuilds(cache, data) ==
    IF cache = <<>> THEN RegexCallbacks(data)
    ELSE SelectSeq(RegexCallbacks(data), LAMBDA rule : rule # "_handle_license_error")

\* _get_regex_callbacks: "if not self._regex_callbacks" makes the list, which is then kept
GetRegexCallbacks(cache, data) == IF cache = <<>> THEN RegexCallbacks(data) ELSE cache

\* the reader is between two lines: no emit is going on
Idle == reader.idx = 0

\* RegexHandler.emit goes on to the next rule that matches the line; 0 when emit returns
Advance(r) == [r EXCEPT !.idx = NextRule(regex_callbacks, r.line, r.idx + 1)]

\* a handler raises: the exception leaves emit, the rules that follow do not run
Abort(r, exc) == [r EXCEPT !.idx = 0, !.error = exc]

Handling(rule) ==
    /\ reader.idx # 0
    /\ regex_callbacks[reader.idx] = rule

InWait == pc \in StartWaitPcs \cup RunWaitPcs

\* int() of the one or two characters _handle_progress cuts out: <<value>>, and <<>> stands
\* for ValueError
IntOf(s) ==
    CASE Len(s) = 1 /\ IsDigit(s[1]) -> <<DigitValue(s[1])>>
      [] Len(s) = 2 /\ IsDigit(s[1]) /\ IsDigit(s[2]) ->
             <<10 * DigitValue(s[1]) + DigitValue(s[2])>>
      [] Len(s) = 2 /\ s[1] \in {" ", "+"} /\ IsDigit(s[2]) -> <<DigitValue(s[2])>>
      [] Len(s) = 2 /\ s[1] = "-" /\ IsDigit(s[2]) -> <<0 - DigitValue(s[2])>>
      [] Len(s) = 2 /\ IsDigit(s[1]) /\ s[2] = " " -> <<DigitValue(s[1])>>
      [] OTHER -> <<>>

\* the value _handle_progress reports for a line its rule matched: <<value>>, and <<>> stands
\* for ValueError
ParseProgress(text) ==
    LET loc == IndexOf(text, AlfProgressText) + Len(AlfProgressText)
        cut == SubSeq(text, loc + 1, IF loc + 2 <= Len(text) THEN loc + 2 ELSE Len(text))
        percent == IF Len(cut) > 0 /\ cut[Len(cut)] = "%" THEN <<cut[1]>> ELSE cut
    IN  IntOf(percent)

ErrorException(text) ==
    Exception("RuntimeError", <<"Houdini Encountered an Error: ">> \o text)

LicenseException(text, free) ==
    Exception("RuntimeError",
              text \o <<"\n">>
              \o <<"This error is typically associated with a licensing error">>
              \o <<" when using Houdini. Check your licensing configuration.\n">>
              \o <<"Free disc space: ">> \o IntStr((free \div 1024) \div 1024) \o <<"M\n">>)

(***************************************************************************)
(* The reader of the subprocess output.                                    *)
(***************************************************************************)
\* a line of output reaches RegexHandler.emit
ReadLineFrom(S) ==
    /\ houdini_client.state # "none"
    /\ Idle
    /\ nlines < MaxLines
    /\ \E line \in S :
           reader' = Advance([line |-> line, idx |-> 0, error |-> NoException])
    /\ nlines' = nlines + 1
    /\ UNCHANGED <<pc, outcome, ncalls, init_data, toolVars, serverVars, houdini_client, action_queue,
                   handlerVars, performing_cleanup, timed_out, log, started, run_frame,
                   histVars>>

ReadLine == ReadLineFrom(Lines)

\* @_check_for_exception: the property _has_exception raises the staged exception
HandleComplete ==
    /\ Handling("_handle_complete")
    /\ IF HasException(exc_info, performing_cleanup) = "raise"
       THEN /\ reader' = Abort(reader, exc_info)
            /\ UNCHANGED <<is_rendering, progress>>
       ELSE /\ is_rendering' = FALSE
            /\ progress' = 100
            /\ reader' = Advance(reader)
    /\ UNCHANGED <<pc, outcome, ncalls, init_data, toolVars, serverVars, houdini_client, action_queue,
                   exc_info, houdini_version, performing_cleanup, timed_out, nlines, log,
                   started, run_frame, histVars>>

HandleProgress ==
    /\ Handling("_handle_progress")
    /\ IF HasException(exc_info, performing_cleanup) = "raise"
       THEN /\ reader' = Abort(reader, exc_info)
            /\ UNCHANGED progress
       ELSE IF ParseProgress(reader.line) = <<>>
            THEN /\ reader' = Abort(reader, Exception("ValueError", <<>>))
                 /\ UNCHANGED progress
            ELSE /\ progress' = ParseProgress(reader.line)[1]
                 /\ reader' = Advance(reader)
    /\ UNCHANGED <<pc, outcome, ncalls, init_data, toolVars, serverVars, houdini_client, action_queue,
                   is_rendering, exc_info, houdini_version, performing_cleanup, timed_out,
                   nlines, log, started, run_frame, histVars>>

HandleError ==
    /\ Handling("_handle_error")
    /\ exc_info' = ErrorException(reader.line)
    /\ reader' = Advance(reader)
    /\ staged_in_wait' = (staged_in_wait \/ InWait)
    /\ UNCHANGED <<pc, outcome, ncalls, init_data, toolVars, serverVars, houdini_client, action_queue,
                   is_rendering, progress, houdini_version, performing_cleanup, timed_out,
                   nlines, log, started, run_frame, first_trip>>

\* mutant of HandleLicenseError: the handler is wrapped in _check_for_exception
HandleLicenseErrorGuarded ==
    /\ Handling("_handle_license_error")
    /\ IF HasException(exc_info, performing_cleanup) = "raise"
       THEN /\ reader' = Abort(reader, exc_info)
            /\ UNCHANGED <<exc_info, staged_in_wait>>
       ELSE /\ \E free \in FreeBytes :
                   exc_info' = LicenseException(HoudiniLicenseErrorText, free)
            /\ reader' = Advance(reader)
            /\ staged_in_wait' = (staged_in_wait \/ InWait)
    /\ UNCHANGED <<pc, outcome, ncalls, init_data, toolVars, serverVars, houdini_client, action_queue,
                   is_rendering, progress, houdini_version, performing_cleanup, timed_out,
                   nlines, log, started, run_frame, first_trip>>

HandleLicenseError ==
    /\ Handling("_handle_license_error")
    /\ \E free \in FreeBytes :
           exc_info' = LicenseException(HoudiniLicenseErrorText, free)
    /\ reader' = Advance(reader)
    /\ staged_in_wait' = (staged_in_wait \/ InWait)
    /\ UNCHANGED <<pc, outcome, ncalls, init_data, toolVars, serverVars, houdini_client, action_queue,
                   is_rendering, progress, houdini_version, performing_cleanup, timed_out,
                   nlines, log, started, run_frame, first_trip>>

HandleHoudiniVersion ==
    /\ Handling("_handle_houdini_version")
    /\ LET groups == VersionGroups(reader.line)
       IN  IF groups[2] = <<"None">>
           THEN /\ houdini_version' = groups[1]
                /\ reader' = Abort(reader, Exception("TypeError", <<>>))
           ELSE /\ houdini_version' = groups[1] \o groups[2]
                /\ reader' = Advance(reader)
    /\ UNCHANGED <<pc, outcome, ncalls, init_data, toolVars, serverVars, houdini_client, action_queue,
                   is_rendering, exc_info, progress, performing_cleanup, timed_out, nlines, log,
                   started, run_frame, histVars>>

(***************************************************************************)
(* The main thread: on_start.                                              *)
(***************************************************************************)
\* validators.init_data.validate: the schema requires the required keys
ValidInitData(data) == \A i \in 1..Len(REQUIRED_HOUDINI_INIT_KEYS) :
                           REQUIRED_HOUDINI_INIT_KEYS[i] \in DOMAIN data

\* the orders in which a Python set can be iterated
Orders(S) == {order \in [1..Cardinality(S) -> S] :
                  \A i, j \in 1..Cardinality(S) : i # j => order[i] # order[j]}

\* the main thread calls a lifecycle operation
Call(op) ==
    /\ pc = "idle"
    /\ ncalls < MaxCalls
    /\ ncalls' = ncalls + 1
    /\ staged_in_wait' = FALSE
    /\ first_trip' = "none"

\* the operation ends: its timer goes out of scope with it
Raise(exc) ==
    /\ outcome' = Raised(outcome.op, exc)
    /\ timed_out' = FALSE
    /\ pc' = "idle"

Return ==
    /\ outcome' = Returned(outcome.op)
    /\ timed_out' = FALSE
    /\ pc' = "idle"

\* mutant of OnStart: the startup actions are enqueued before the server thread is started
OnStartPopulatesFirst ==
    /\ Call("on_start")
    /\ ~started
    /\ started' = TRUE
    /\ log' = {}
    /\ IF ~ValidInitData(init_data)
       THEN /\ outcome' = Raised("on_start", ValidationError)
            /\ pc' = "idle"
            /\ UNCHANGED <<progress, server_thread, timed_out, action_queue>>
       ELSE /\ outcome' = Pending("on_start")
            /\ progress' = 0
            /\ action_queue' = action_queue \o
                   [i \in 1..Len(REQUIRED_HOUDINI_INIT_KEYS) |->
                       Action(REQUIRED_HOUDINI_INIT_KEYS[i],
                              REQUIRED_HOUDINI_INIT_KEYS[i] :>
                                  init_data[REQUIRED_HOUDINI_INIT_KEYS[i]])]
            /\ server_thread' = "alive"
            /\ timed_out' = FALSE
            /\ pc' = "socket_check_server"
    /\ UNCHANGED <<init_data, toolVars, server, shutdown_requested, houdini_client, is_rendering,
                   exc_info, houdini_version, performing_cleanup, readerVars, run_frame>>

\* mutant of OnStart: the server thread is started before init_data is validated
OnStartValidatesLate ==
    /\ Call("on_start")
    /\ ~started
    /\ started' = TRUE
    /\ log' = {}
    /\ server_thread' = "alive"
    /\ IF ~ValidInitData(init_data)
       THEN /\ outcome' = Raised("on_start", ValidationError)
            /\ pc' = "idle"
            /\ UNCHANGED <<progress, timed_out>>
       ELSE /\ outcome' = Pending("on_start")
            /\ progress' = 0
            /\ timed_out' = FALSE
            /\ pc' = "socket_check_server"
    /\ UNCHANGED <<init_data, toolVars, server, shutdown_requested, houdini_client, action_queue,
                   is_rendering, exc_info, houdini_version, performing_cleanup, readerVars,
                   run_frame>>

OnStart ==
    /\ Call("on_start")
    /\ ~started
    /\ started' = TRUE
    /\ log' = {}
    /\ IF ~ValidInitData(init_data)
       THEN /\ outcome' = Raised("on_start", ValidationError)
            /\ pc' = "idle"
            /\ UNCHANGED <<progress, server_thread, timed_out>>
       ELSE /\ outcome' = Pending("on_start")
            /\ progress' = 0
            /\ server_thread' = "alive"
            /\ timed_out' = FALSE
            /\ pc' = "socket_check_server"
    /\ UNCHANGED <<init_data, toolVars, server, shutdown_requested, houdini_client, action_queue,
                   is_rendering, exc_info, houdini_version, performing_cleanup, readerVars,
                   run_frame>>

\* _wait_for_socket: the loop condition "server is None or server_path is None"
WaitForSocketCheckServer ==
    /\ pc = "socket_check_server"
    /\ pc' = IF server # "ready" THEN "socket_check_timer" ELSE "socket_done"
    /\ UNCHANGED <<outcome, ncalls, init_data, toolVars, serverVars, houdini_client, action_queue,
                   handlerVars, performing_cleanup, timed_out, readerVars, log, started,
                   run_frame, histVars>>

\* mutant of WaitForSocketCheckTimer: the loop does not look at its timer
WaitForSocketIgnoresTimer ==
    /\ pc = "socket_check_timer"
    /\ pc' = "socket_check_server"
    /\ UNCHANGED <<outcome, ncalls, init_data, toolVars, serverVars, houdini_client,
                   action_queue, handlerVars, performing_cleanup, timed_out, readerVars, log,
                   started, run_frame, histVars>>

\* _wait_for_socket: the loop condition "not is_timed_out()", then the sleep
WaitForSocketCheckTimer ==
    /\ pc = "socket_check_timer"
    /\ pc' = IF ~timed_out THEN "socket_check_server" ELSE "socket_done"
    /\ UNCHANGED <<outcome, ncalls, init_data, toolVars, serverVars, houdini_client, action_queue,
                   handlerVars, performing_cleanup, timed_out, readerVars, log, started,
                   run_frame, histVars>>

\* mutant of WaitForSocketDone: the path that was waited for is not put into the environment
WaitForSocketDoneDropsPath ==
    /\ pc = "socket_done"
    /\ IF server = "ready"
       THEN /\ pc' = "start_populate"
            /\ UNCHANGED <<outcome, timed_out>>
       ELSE Raise(SocketError)
    /\ UNCHANGED <<ncalls, init_data, toolVars, serverVars, houdini_client, action_queue, handlerVars,
                   performing_cleanup, readerVars, log, started, run_frame, histVars>>

\* _wait_for_socket after the loop: return the path or raise; the path that is returned is
\* assigned to os.environ["HOUDINI_ADAPTOR_SERVER_PATH"]
WaitForSocketDone ==
    /\ pc = "socket_done"
    /\ IF server = "ready"
       THEN /\ client_main' = [client_main EXCEPT !.env = "/tmp/adaptor.sock"]
            /\ pc' = "start_populate"
            /\ UNCHANGED <<outcome, timed_out>>
       ELSE /\ Raise(SocketError)
            /\ UNCHANGED client_main
    /\ UNCHANGED <<legacy, ncalls, init_data, rop_node, submitter, handler, regex_callbacks,
                   serverVars, houdini_client,
                   action_queue, handlerVars, performing_cleanup, readerVars, log, started,
                   run_frame, histVars>>

\* mutant of InitActions: the loop over the optional keys runs before the required keys
InitActionsOptionalFirst(data, order) ==
    [i \in 1..Len(order) |-> Action(order[i], order[i] :> data[order[i]])]
    \o [i \in 1..Len(REQUIRED_HOUDINI_INIT_KEYS) |->
           Action(REQUIRED_HOUDINI_INIT_KEYS[i],
                  REQUIRED_HOUDINI_INIT_KEYS[i] :> data[REQUIRED_HOUDINI_INIT_KEYS[i]])]

\* the actions _populate_action_queue appends, the optional keys in the given order
InitActions(data, order) ==
    [i \in 1..Len(REQUIRED_HOUDINI_INIT_KEYS) |->
        Action(REQUIRED_HOUDINI_INIT_KEYS[i],
               REQUIRED_HOUDINI_INIT_KEYS[i] :> data[REQUIRED_HOUDINI_INIT_KEYS[i]])]
    \o [i \in 1..Len(order) |-> Action(order[i], order[i] :> data[order[i]])]

PopulateActionQueue ==
    /\ pc = "start_populate"
    /\ \E order \in Orders(OPTIONAL_HOUDINI_INIT_KEYS \cap DOMAIN init_data) :
           action_queue' = action_queue \o InitActions(init_data, order)
    /\ pc' = "start_client"
    /\ UNCHANGED <<outcome, ncalls, init_data, toolVars, serverVars, houdini_client, handlerVars,
                   performing_cleanup, timed_out, readerVars, log, started, run_frame,
                   histVars>>

\* _start_houdini_client, then the timer of the startup wait
StartHoudiniClient ==
    /\ pc = "start_client"
    /\ houdini_client' = [state |-> "running", returncode |-> 0]
    /\ regex_callbacks' = GetRegexCallbacks(regex_callbacks, init_data)
    /\ timed_out' = FALSE
    /\ pc' = "start_check_running"
    /\ UNCHANGED <<legacy, outcome, ncalls, init_data, client_main, rop_node, submitter, handler,
                   serverVars, action_queue, handlerVars,
                   performing_cleanup, readerVars, log, started, run_frame, histVars>>

\* mutant of StartCheckRunning: the timer is checked before the liveness of the subprocess
StartCheckTimerFirst ==
    /\ pc = "start_check_running"
    /\ IF timed_out
       THEN Raise(StartTimeoutError)
       ELSE /\ pc' = IF HoudiniIsRunning(houdini_client) THEN "start_check_exception"
                     ELSE "start_final"
            /\ UNCHANGED <<outcome, timed_out>>
    /\ UNCHANGED <<ncalls, init_data, toolVars, serverVars, houdini_client, action_queue, handlerVars,
                   performing_cleanup, readerVars, log, started, run_frame, histVars>>

\* the startup wait: "self._houdini_is_running"
StartCheckRunning ==
    /\ pc = "start_check_running"
    /\ pc' = IF HoudiniIsRunning(houdini_client) THEN "start_check_exception" ELSE "start_final"
    /\ UNCHANGED <<outcome, ncalls, init_data, toolVars, serverVars, houdini_client, action_queue,
                   handlerVars, performing_cleanup, timed_out, readerVars, log, started,
                   run_frame, histVars>>

\* the startup wait: "not self._has_exception"
StartCheckException ==
    /\ pc = "start_check_exception"
    /\ IF HasException(exc_info, performing_cleanup) = "raise"
       THEN Raise(exc_info)
       ELSE /\ pc' = "start_check_queue"
            /\ UNCHANGED <<outcome, timed_out>>
    /\ UNCHANGED <<ncalls, init_data, toolVars, serverVars, houdini_client, action_queue, handlerVars,
                   performing_cleanup, readerVars, log, started, run_frame, histVars>>

\* the startup wait: "len(self._action_queue) > 0"
StartCheckQueue ==
    /\ pc = "start_check_queue"
    /\ pc' = IF Len(action_queue) > 0 THEN "start_check_timer" ELSE "start_final"
    /\ UNCHANGED <<outcome, ncalls, init_data, toolVars, serverVars, houdini_client, action_queue,
                   handlerVars, performing_cleanup, timed_out, readerVars, log, started,
                   run_frame, histVars>>

\* the startup wait: "if is_timed_out(): raise TimeoutError", then the sleep
StartCheckTimer ==
    /\ pc = "start_check_timer"
    /\ IF timed_out
       THEN Raise(StartTimeoutError)
       ELSE /\ pc' = "start_check_running"
            /\ UNCHANGED <<outcome, timed_out>>
    /\ UNCHANGED <<ncalls, init_data, toolVars, serverVars, houdini_client, action_queue, handlerVars,
                   performing_cleanup, readerVars, log, started, run_frame, histVars>>

\* mutant of StartFinal: the check of the queue after the wait is left out
StartFinalNoCheck ==
    /\ pc = "start_final"
    /\ Return
    /\ UNCHANGED <<ncalls, init_data, toolVars, serverVars, houdini_client, action_queue, handlerVars,
                   performing_cleanup, readerVars, log, started, run_frame, histVars>>

\* after the startup wait: "if len(self._action_queue) > 0: raise RuntimeError"
StartFinal ==
    /\ pc = "start_final"
    /\ IF Len(action_queue) > 0 THEN Raise(InitFailedError) ELSE Return
    /\ UNCHANGED <<ncalls, init_data, toolVars, serverVars, houdini_client, action_queue, handlerVars,
                   performing_cleanup, readerVars, log, started, run_frame, histVars>>

(***************************************************************************)
(* The main thread: on_run.                                                *)
(***************************************************************************)
\* int() of the frame of the run data; -1 stands for ValueError
FrameOf(text) ==
    IF Len(text) > 0 /\ \A i \in 1..Len(text) : IsDigit(text[i])
    THEN LET RECURSIVE Value(_)
             Value(n) == IF n = 0 THEN 0 ELSE 10 * Value(n - 1) + DigitValue(text[n])
         IN  Value(Len(text))
    ELSE 0 - 1

\* mutant of RunActions: start_render is enqueued before the run-scoped actions
RunActionsRenderFirst(run_data, order) ==
    <<Action("start_render", "frame" :> run_data["frame"])>>
    \o [i \in 1..Len(order) |-> Action(order[i], order[i] :> run_data[order[i]])]

\* the actions on_run appends for the run data, the run keys in the given order
RunActions(run_data, order) ==
    [i \in 1..Len(order) |-> Action(order[i], order[i] :> run_data[order[i]])]
    \o <<Action("start_render", "frame" :> run_data["frame"])>>

\* mutant of OnRun: the rendering flag is set before the liveness check
OnRunFlagFirst ==
    /\ Call("on_run")
    /\ log' = {}
    /\ is_rendering' = TRUE
    /\ \E text \in RunFrames :
           IF ~HoudiniIsRunning(houdini_client)
           THEN /\ outcome' = Raised("on_run", NotRunningError)
                /\ pc' = "idle"
                /\ UNCHANGED run_frame
           ELSE IF FrameOf(text) < 0
                THEN /\ outcome' = Raised("on_run", Exception("ValueError", text))
                     /\ pc' = "idle"
                     /\ UNCHANGED run_frame
                ELSE /\ outcome' = Pending("on_run")
                     /\ run_frame' = FrameOf(text)
                     /\ pc' = "run_enqueue"
    /\ UNCHANGED <<init_data, toolVars, serverVars, houdini_client, action_queue, exc_info, progress,
                   houdini_version, performing_cleanup, timed_out, readerVars, started>>

OnRunOf(frames) ==
    /\ Call("on_run")
    /\ log' = {}
    /\ \E text \in frames :
           IF ~HoudiniIsRunning(houdini_client)
           THEN /\ outcome' = Raised("on_run", NotRunningError)
                /\ pc' = "idle"
                /\ UNCHANGED <<is_rendering, run_frame>>
           ELSE IF FrameOf(text) < 0
                THEN /\ outcome' = Raised("on_run", Exception("ValueError", text))
                     /\ pc' = "idle"
                     /\ UNCHANGED <<is_rendering, run_frame>>
                ELSE /\ outcome' = Pending("on_run")
                     /\ run_frame' = FrameOf(text)
                     /\ is_rendering' = TRUE
                     /\ pc' = "run_enqueue"
    /\ UNCHANGED <<init_data, toolVars, serverVars, houdini_client, action_queue, exc_info, progress,
                   houdini_version, performing_cleanup, timed_out, readerVars, started>>

OnRun == OnRunOf(RunFrames)

\* "for name in _HOUDINI_RUN_KEYS: enqueue", then the start_render action
RunEnqueue ==
    /\ pc = "run_enqueue"
    /\ \E order \in Orders(HOUDINI_RUN_KEYS \cap DOMAIN ("frame" :> run_frame)) :
           action_queue' = action_queue \o RunActions("frame" :> run_frame, order)
    /\ pc' = "run_check_rendering"
    /\ UNCHANGED <<outcome, ncalls, init_data, toolVars, serverVars, houdini_client, handlerVars,
                   performing_cleanup, timed_out, readerVars, log, started, run_frame,
                   histVars>>

\* mutant of RunCheckRendering: the render wait looks at the rendering flag only
RunCheckRenderingFlagOnly ==
    /\ pc = "run_check_rendering"
    /\ pc' = IF is_rendering THEN "run_check_exception" ELSE "run_final"
    /\ UNCHANGED <<outcome, ncalls, init_data, toolVars, serverVars, houdini_client, action_queue,
                   handlerVars, performing_cleanup, timed_out, readerVars, log, started,
                   run_frame, histVars>>

\* mutant of RunCheckRendering: the render wait is left whatever the rendering flag is
RunCheckRenderingNoWait ==
    /\ pc = "run_check_rendering"
    /\ pc' = "run_final"
    /\ UNCHANGED <<outcome, ncalls, init_data, toolVars, serverVars, houdini_client, action_queue,
                   handlerVars, performing_cleanup, timed_out, readerVars, log, started,
                   run_frame, histVars>>

\* the render wait: "self._houdini_is_rendering"
RunCheckRendering ==
    /\ pc = "run_check_rendering"
    /\ pc' = IF HoudiniIsRendering(houdini_client, is_rendering)
             THEN "run_check_exception" ELSE "run_final"
    /\ UNCHANGED <<outcome, ncalls, init_data, toolVars, serverVars, houdini_client, action_queue,
                   handlerVars, performing_cleanup, timed_out, readerVars, log, started,
                   run_frame, histVars>>

\* the render wait: "not self._has_exception", then the sleep
RunCheckException ==
    /\ pc = "run_check_exception"
    /\ IF HasException(exc_info, performing_cleanup) = "raise"
       THEN Raise(exc_info)
       ELSE /\ pc' = "run_check_rendering"
            /\ UNCHANGED <<outcome, timed_out>>
    /\ UNCHANGED <<ncalls, init_data, toolVars, serverVars, houdini_client, action_queue, handlerVars,
                   performing_cleanup, readerVars, log, started, run_frame, histVars>>

\* mutant of RunFinal: the liveness check after the wait is left out
RunFinalReturns ==
    /\ pc = "run_final"
    /\ Return
    /\ UNCHANGED <<ncalls, init_data, toolVars, serverVars, houdini_client, action_queue, handlerVars,
                   performing_cleanup, readerVars, log, started, run_frame, histVars>>

\* after the render wait: "if not self._houdini_is_running and self._houdini_client"
RunFinal ==
    /\ pc = "run_final"
    /\ IF ~HoudiniIsRunning(houdini_client) /\ houdini_client.state # "none"
       THEN Raise(ExitedEarlyError(houdini_client.returncode))
       ELSE Return
    /\ UNCHANGED <<ncalls, init_data, toolVars, serverVars, houdini_client, action_queue, handlerVars,
                   performing_cleanup, readerVars, log, started, run_frame, histVars>>

(***************************************************************************)
(* The main thread: on_stop and on_cleanup.                                *)
(***************************************************************************)
\* mutant of OnStop: the close action is enqueued without front=True
OnStopAtBack ==
    /\ Call("on_stop")
    /\ log' = {}
    /\ action_queue' = EnqueueAction(action_queue, CloseAction, FALSE)
    /\ outcome' = Returned("on_stop")
    /\ pc' = "idle"
    /\ UNCHANGED <<init_data, toolVars, serverVars, houdini_client, handlerVars, performing_cleanup,
                   timed_out, readerVars, started, run_frame>>

OnStop ==
    /\ Call("on_stop")
    /\ log' = {}
    /\ action_queue' = EnqueueAction(action_queue, CloseAction, TRUE)
    /\ outcome' = Returned("on_stop")
    /\ pc' = "idle"
    /\ UNCHANGED <<init_data, toolVars, serverVars, houdini_client, handlerVars, performing_cleanup,
                   timed_out, readerVars, started, run_frame>>

OnCleanup ==
    /\ Call("on_cleanup")
    /\ log' = {}
    /\ performing_cleanup' = TRUE
    /\ action_queue' = EnqueueAction(action_queue, CloseAction, TRUE)
    /\ timed_out' = FALSE
    /\ outcome' = Pending("on_cleanup")
    /\ pc' = "cleanup_check_running"
    /\ UNCHANGED <<init_data, toolVars, serverVars, houdini_client, handlerVars, readerVars, started,
                   run_frame>>

\* the exit wait: "self._houdini_is_running"
CleanupCheckRunning ==
    /\ pc = "cleanup_check_running"
    /\ pc' = IF HoudiniIsRunning(houdini_client) THEN "cleanup_check_timer"
             ELSE "cleanup_terminate"
    /\ UNCHANGED <<outcome, ncalls, init_data, toolVars, serverVars, houdini_client, action_queue,
                   handlerVars, performing_cleanup, timed_out, readerVars, log, started,
                   run_frame, histVars>>

\* the exit wait: "not is_timed_out()", then the sleep
CleanupCheckTimer ==
    /\ pc = "cleanup_check_timer"
    /\ pc' = IF ~timed_out THEN "cleanup_check_running" ELSE "cleanup_terminate"
    /\ UNCHANGED <<outcome, ncalls, init_data, toolVars, serverVars, houdini_client, action_queue,
                   handlerVars, performing_cleanup, timed_out, readerVars, log, started,
                   run_frame, histVars>>

\* mutant of CleanupTerminate: terminate() is called on any attached subprocess
CleanupTerminateAlways ==
    /\ pc = "cleanup_terminate"
    /\ IF houdini_client.state # "none"
       THEN /\ log' = log \cup {NotGracefulLog}
            /\ \E code \in {SIGTERM, SIGKILL} :
                   houdini_client' = [state |-> "exited", returncode |-> code]
       ELSE UNCHANGED <<log, houdini_client>>
    /\ pc' = "cleanup_shutdown"
    /\ UNCHANGED <<outcome, ncalls, init_data, toolVars, serverVars, action_queue, handlerVars,
                   performing_cleanup, timed_out, readerVars, started, run_frame, histVars>>

\* "if self._houdini_is_running and self._houdini_client": log and terminate()
CleanupTerminate ==
    /\ pc = "cleanup_terminate"
    /\ IF HoudiniIsRunning(houdini_client) /\ houdini_client.state # "none"
       THEN /\ log' = log \cup {NotGracefulLog}
            /\ \E code \in {SIGTERM, SIGKILL} :
                   houdini_client' = [state |-> "exited", returncode |-> code]
       ELSE UNCHANGED <<log, houdini_client>>
    /\ pc' = "cleanup_shutdown"
    /\ UNCHANGED <<outcome, ncalls, init_data, toolVars, serverVars, action_queue, handlerVars,
                   performing_cleanup, timed_out, readerVars, started, run_frame, histVars>>

\* "if self._server: self._server.shutdown()", then "if ... is_alive()" and the timer of join
CleanupShutdown ==
    /\ pc = "cleanup_shutdown"
    /\ shutdown_requested' = (shutdown_requested \/ server # "none")
    /\ timed_out' = FALSE
    /\ pc' = IF server_thread = "alive" THEN "cleanup_join" ELSE "cleanup_done"
    /\ UNCHANGED <<outcome, ncalls, init_data, toolVars, server, server_thread, houdini_client,
                   action_queue, handlerVars, performing_cleanup, readerVars, log, started,
                   run_frame, histVars>>

\* mutant of CleanupJoin: a server thread that did not stop is raised, not logged
CleanupJoinRaises ==
    /\ pc = "cleanup_join"
    /\ server_thread # "alive" \/ timed_out
    /\ IF server_thread = "alive"
       THEN Raise(Exception("RuntimeError", <<ServerShutdownLog>>))
       ELSE /\ pc' = "cleanup_done"
            /\ UNCHANGED <<outcome, timed_out>>
    /\ UNCHANGED <<ncalls, init_data, toolVars, serverVars, houdini_client, action_queue, handlerVars,
                   performing_cleanup, readerVars, log, started, run_frame, histVars>>

\* mutant of CleanupJoin: join() is called without a timeout
CleanupJoinNoTimeout ==
    /\ pc = "cleanup_join"
    /\ server_thread # "alive"
    /\ pc' = "cleanup_done"
    /\ UNCHANGED <<outcome, ncalls, init_data, toolVars, serverVars, houdini_client, action_queue,
                   handlerVars, performing_cleanup, timed_out, readerVars, log, started,
                   run_frame, histVars>>

\* join(timeout) returns when the thread has ended or the timeout elapsed; then is_alive()
CleanupJoin ==
    /\ pc = "cleanup_join"
    /\ server_thread # "alive" \/ timed_out
    /\ log' = IF server_thread = "alive" THEN log \cup {ServerShutdownLog} ELSE log
    /\ pc' = "cleanup_done"
    /\ UNCHANGED <<outcome, ncalls, init_data, toolVars, serverVars, houdini_client, action_queue,
                   handlerVars, performing_cleanup, timed_out, readerVars, started, run_frame,
                   histVars>>

\* "self._performing_cleanup = False"
\* mutant of CleanupDone: the end of on_cleanup empties the pending-exception slot
CleanupDoneClearsSlot ==
    /\ pc = "cleanup_done"
    /\ performing_cleanup' = FALSE
    /\ exc_info' = NoException
    /\ Return
    /\ UNCHANGED <<ncalls, init_data, toolVars, serverVars, houdini_client, action_queue,
                   is_rendering, progress, houdini_version, readerVars, log, started,
                   run_frame, histVars>>

CleanupDone ==
    /\ pc = "cleanup_done"
    /\ performing_cleanup' = FALSE
    /\ Return
    /\ UNCHANGED <<ncalls, init_data, toolVars, serverVars, houdini_client, action_queue, handlerVars,
                   readerVars, log, started, run_frame, histVars>>

(***************************************************************************)
(* on_cancel, called from the signal handler of the runtime.               *)
(***************************************************************************)
\* history: the subprocess stops being alive during the startup wait ("exit" while the main
\* thread is before the liveness check of a poll, "exit_in_poll" after it), or during the
\* render wait with the rendering flag still true
TripExit ==
    IF first_trip # "none" THEN first_trip
    ELSE IF pc = "start_check_running" THEN "exit"
    ELSE IF pc \in StartWaitPcs THEN "exit_in_poll"
    ELSE IF pc \in RunWaitPcs \cup {"run_enqueue"} /\ is_rendering THEN "exit"
    ELSE first_trip

\* mutant of OnCancel: terminate() is called with its default grace time
OnCancelDefaultGrace ==
    /\ IF houdini_client.state = "none" \/ ~HoudiniIsRunning(houdini_client)
       THEN /\ log' = log \cup {CancelRequestedLog, NothingToCancelLog}
            /\ UNCHANGED <<houdini_client, first_trip>>
       ELSE /\ log' = log \cup {CancelRequestedLog}
            /\ \E code \in {SIGTERM, SIGKILL} :
                   houdini_client' = [state |-> "exited", returncode |-> code]
            /\ first_trip' = TripExit
    /\ UNCHANGED <<pc, outcome, ncalls, init_data, toolVars, serverVars, action_queue, handlerVars,
                   performing_cleanup, timed_out, readerVars, started, run_frame,
                   staged_in_wait>>

\* mutant of OnCancel: terminate() is called on any attached subprocess, alive or not
OnCancelNoLivenessCheck ==
    /\ IF houdini_client.state = "none"
       THEN /\ log' = log \cup {CancelRequestedLog, NothingToCancelLog}
            /\ UNCHANGED <<houdini_client, first_trip>>
       ELSE /\ log' = log \cup {CancelRequestedLog}
            /\ houdini_client' = [state |-> "exited", returncode |-> SIGKILL]
            /\ first_trip' = TripExit
    /\ UNCHANGED <<pc, outcome, ncalls, init_data, toolVars, serverVars, action_queue, handlerVars,
                   performing_cleanup, timed_out, readerVars, started, run_frame,
                   staged_in_wait>>

OnCancel ==
    /\ IF houdini_client.state = "none" \/ ~HoudiniIsRunning(houdini_client)
       THEN /\ log' = log \cup {CancelRequestedLog, NothingToCancelLog}
            /\ UNCHANGED <<houdini_client, first_trip>>
       ELSE /\ log' = log \cup {CancelRequestedLog}
            /\ houdini_client' = [state |-> "exited", returncode |-> SIGKILL]
            /\ first_trip' = TripExit
    /\ UNCHANGED <<pc, outcome, ncalls, init_data, toolVars, serverVars, action_queue, handlerVars,
                   performing_cleanup, timed_out, readerVars, started, run_frame,
                   staged_in_wait>>

(***************************************************************************)
(* The control-server thread, the subprocess and the clock.                *)
(***************************************************************************)
\* _start_houdini_server: "self._server = AdaptorServer(...)"
ServerConstruct ==
    /\ server_thread = "alive"
    /\ server = "none"
    /\ server' = "created"
    /\ UNCHANGED <<pc, outcome, ncalls, init_data, toolVars, server_thread, shutdown_requested,
                   houdini_client, action_queue, handlerVars, performing_cleanup, timed_out,
                   readerVars, log, started, run_frame, histVars>>

\* the server publishes its address: server_path is no longer None
ServerPublish ==
    /\ server_thread = "alive"
    /\ server = "created"
    /\ server' = "ready"
    /\ UNCHANGED <<pc, outcome, ncalls, init_data, toolVars, server_thread, shutdown_requested,
                   houdini_client, action_queue, handlerVars, performing_cleanup, timed_out,
                   readerVars, log, started, run_frame, histVars>>

\* serve_forever returns after a shutdown request and the thread ends
ServerThreadExit ==
    /\ server_thread = "alive"
    /\ shutdown_requested
    /\ server_thread' = "dead"
    /\ UNCHANGED <<pc, outcome, ncalls, init_data, toolVars, server, shutdown_requested, houdini_client,
                   action_queue, handlerVars, performing_cleanup, timed_out, readerVars, log,
                   started, run_frame, histVars>>

\* the client in the subprocess takes the next action from the server
ClientDequeue ==
    /\ HoudiniIsRunning(houdini_client)
    /\ server = "ready"
    /\ server_thread = "alive"
    /\ Len(action_queue) > 0
    /\ action_queue' = Tail(action_queue)
    /\ UNCHANGED <<pc, outcome, ncalls, init_data, toolVars, serverVars, houdini_client, handlerVars,
                   performing_cleanup, timed_out, readerVars, log, started, run_frame,
                   histVars>>

\* the subprocess exits on its own
ClientExit ==
    /\ HoudiniIsRunning(houdini_client)
    /\ \E code \in ExitCodes :
           houdini_client' = [state |-> "exited", returncode |-> code]
    /\ first_trip' = TripExit
    /\ UNCHANGED <<pc, outcome, ncalls, init_data, toolVars, serverVars, action_queue, handlerVars,
                   performing_cleanup, timed_out, readerVars, log, started, run_frame,
                   staged_in_wait>>

TimedPcs == {"socket_check_server", "socket_check_timer", "cleanup_check_running",
             "cleanup_check_timer", "cleanup_join"} \cup StartWaitPcs

\* the timeout of the timer the main thread is waiting with elapses
TimeElapses ==
    /\ pc \in TimedPcs
    /\ ~timed_out
    /\ timed_out' = TRUE
    /\ first_trip' = IF pc \in StartWaitPcs /\ first_trip = "none" THEN "timeout"
                     ELSE first_trip
    /\ UNCHANGED <<pc, outcome, ncalls, init_data, toolVars, serverVars, houdini_client, action_queue,
                   handlerVars, performing_cleanup, readerVars, log, started, run_frame,
                   staged_in_wait>>

Next ==
    \/ OnStart \/ WaitForSocketCheckServer \/ WaitForSocketCheckTimer \/ WaitForSocketDone
    \/ PopulateActionQueue \/ StartHoudiniClient
    \/ StartCheckRunning \/ StartCheckException \/ StartCheckQueue \/ StartCheckTimer
    \/ StartFinal
    \/ OnRun \/ RunEnqueue \/ RunCheckRendering \/ RunCheckException \/ RunFinal
    \/ OnStop
    \/ OnCleanup \/ CleanupCheckRunning \/ CleanupCheckTimer \/ CleanupTerminate
    \/ CleanupShutdown \/ CleanupJoin \/ CleanupDone
    \/ OnCancel
    \/ ServerConstruct \/ ServerPublish \/ ServerThreadExit
    \/ ClientDequeue \/ ClientExit \/ TimeElapses
    \/ ReadLine \/ HandleComplete \/ HandleError \/ HandleLicenseError

Spec == Init /\ [][Next]_vars

\* a later request for the rule list (adaptor._get_regex_callbacks(), as the unit tests
\* make it), between two lifecycle calls
RequestRegexCallbacks ==
    /\ pc = "idle"
    /\ regex_callbacks' = GetRegexCallbacks(regex_callbacks, init_data)
    /\ UNCHANGED <<legacy, pc, outcome, ncalls, init_data, client_main, rop_node, submitter, handler,
                   serverVars, houdini_client, action_queue, handlerVars, performing_cleanup,
                   timed_out, readerVars, log, started, run_frame, histVars>>

RulesSpec == Init /\ [][Next \/ RequestRegexCallbacks]_vars

(***************************************************************************)
(* Several sessions in one process: between two lifecycle calls a new      *)
(* HoudiniAdaptor is constructed and takes the place of the one that was   *)
(* started.  The class has no __init__ of its own: every attribute of the  *)
(* new instance is the class-level default, and _action_queue is one       *)
(* ActionsQueue object made when the class body ran, which the instances   *)
(* share and change in place.                                              *)
(***************************************************************************)
NewAdaptor ==
    /\ pc = "idle"
    /\ started
    /\ outcome' = [op |-> "none", type |-> "none", msg |-> <<>>]
    /\ init_data' \in InitDatas
    /\ server' = "none"
    /\ server_thread' = "none"
    /\ shutdown_requested' = FALSE
    /\ houdini_client' = [state |-> "none", returncode |-> 0]
    /\ is_rendering' = FALSE
    /\ exc_info' = NoException
    /\ performing_cleanup' = FALSE
    /\ progress' = 0 - 1
    /\ houdini_version' = <<>>
    /\ timed_out' = FALSE
    /\ reader' = [line |-> <<>>, idx |-> 0, error |-> NoException]
    /\ log' = {}
    /\ started' = FALSE
    /\ run_frame' = 0
    /\ staged_in_wait' = FALSE
    /\ first_trip' = "none"
    /\ regex_callbacks' = <<>>
    /\ UNCHANGED <<legacy, pc, action_queue, ncalls, nlines, client_main, rop_node, submitter, handler>>

SessionsSpec == Init /\ [][Next \/ NewAdaptor]_vars

TypeOK ==
    /\ pc \in {"idle", "socket_check_server", "socket_check_timer", "socket_done",
               "start_populate", "start_client", "start_final", "run_enqueue", "run_final",
               "cleanup_check_running", "cleanup_check_timer", "cleanup_terminate",
               "cleanup_shutdown", "cleanup_join", "cleanup_done"}
              \cup StartWaitPcs \cup RunWaitPcs
    /\ ncalls \in 0..MaxCalls
    /\ nlines \in 0..MaxLines
    /\ server \in {"none", "created", "ready"}
    /\ server_thread \in {"none", "alive", "dead"}
    /\ houdini_client.state \in {"none", "running", "exited"}
    /\ is_rendering \in BOOLEAN
    /\ performing_cleanup \in BOOLEAN
    /\ progress \in (0 - 1)..100

(***************************************************************************)
(* Fairness: the main thread keeps running and time passes.                *)
(***************************************************************************)
MainStep ==
    \/ WaitForSocketCheckServer \/ WaitForSocketCheckTimer \/ WaitForSocketDone
    \/ PopulateActionQueue \/ StartHoudiniClient
    \/ StartCheckRunning \/ StartCheckException \/ StartCheckQueue \/ StartCheckTimer
    \/ StartFinal
    \/ RunEnqueue \/ RunCheckRendering \/ RunCheckException \/ RunFinal
    \/ CleanupCheckRunning \/ CleanupCheckTimer \/ CleanupTerminate
    \/ CleanupShutdown \/ CleanupJoin \/ CleanupDone

FairSpec == Spec /\ WF_vars(MainStep) /\ WF_vars(TimeElapses)

(***************************************************************************)
(* The start of a session on its own, up to the launch of the subprocess,  *)
(* with every choice of the optional keys in the initialization payload.   *)
(***************************************************************************)
StartupInit == InitWith(OptionalInitDatas)

StartupNext ==
    \/ OnStart \/ WaitForSocketCheckServer \/ WaitForSocketCheckTimer \/ WaitForSocketDone
    \/ PopulateActionQueue \/ StartHoudiniClient
    \/ OnStop
    \/ ServerConstruct \/ ServerPublish \/ TimeElapses

StartupSpec == StartupInit /\ [][StartupNext]_vars

(***************************************************************************)
(* The output classifier on its own: the subprocess was started by         *)
(* on_start and prints lines of every kind while the main thread is in the *)
(* sleep of the startup wait.                                              *)
(***************************************************************************)
ClassifyInit ==
    /\ pc = "start_check_running"
    /\ outcome = Pending("on_start")
    /\ ncalls = 1
    /\ init_data \in {data \in InitDatas : ValidInitData(data)}
    /\ server = "ready"
    /\ server_thread = "alive"
    /\ shutdown_requested = FALSE
    /\ houdini_client = [state |-> "running", returncode |-> 0]
    /\ \E order \in Orders(OPTIONAL_HOUDINI_INIT_KEYS \cap DOMAIN init_data) :
           action_queue = InitActions(init_data, order)
    /\ is_rendering = FALSE
    /\ exc_info = NoException
    /\ performing_cleanup = FALSE
    /\ progress = 0
    /\ houdini_version = <<>>
    /\ timed_out = FALSE
    /\ reader = [line |-> <<>>, idx |-> 0, error |-> NoException]
    /\ nlines = 0
    /\ log = {}
    /\ started = TRUE
    /\ run_frame = 0
    /\ staged_in_wait = FALSE
    /\ first_trip = "none"
    /\ client_main = [NoClientMain EXCEPT !.env = "/tmp/adaptor.sock"]
    /\ rop_node = BasicRopNode
    /\ submitter = NoSubmission
    /\ handler = NoHandler
    /\ regex_callbacks = RegexCallbacks(init_data)
    /\ legacy = NoLegacy

ReadStatusLine ==
    ReadLineFrom(Lines \cup StatusLines(Percentages \cup {LongPercentage}) \cup MarkerLines)

ClassifyNext ==
    \/ ReadStatusLine
    \/ HandleComplete \/ HandleProgress \/ HandleError \/ HandleLicenseError
    \/ HandleHoudiniVersion

ClassifySpec == ClassifyInit /\ [][ClassifyNext]_vars

(***************************************************************************)
(* The client in the subprocess (HoudiniClient/houdini_client.py): hython  *)
(* runs main() in an environment that has HOUDINI_ADAPTOR_SERVER_PATH as   *)
(* on_start set it, or unset or empty when it was launched otherwise.      *)
(***************************************************************************)
\* os.environ.get("HOUDINI_ADAPTOR_SERVER_PATH"): "None" stands for an unset variable
ServerPaths == {"None", "", "/tmp/adaptor.sock"}

EnvMissingError ==
    Exception("OSError",
              <<"HoudiniClient cannot connect to the Adaptor because the environment variable ">>
              \o <<"HOUDINI_ADAPTOR_SERVER_PATH does not exist">>)

SocketMissingError(server_path) ==
    Exception("OSError",
              <<"HoudiniClient cannot connect to the Adaptor because the socket at the path ">>
              \o <<"defined by the environment variable HOUDINI_ADAPTOR_SERVER_PATH does not ">>
              \o <<"exist. Got: ">> \o <<server_path>>)

ClientInit ==
    /\ pc = "start_check_running"
    /\ outcome = Pending("on_start")
    /\ ncalls = 1
    /\ init_data \in OptionalInitDatas
    /\ server = "ready"
    /\ server_thread = "alive"
    /\ shutdown_requested = FALSE
    /\ houdini_client = [state |-> "running", returncode |-> 0]
    /\ \E order \in Orders(OPTIONAL_HOUDINI_INIT_KEYS \cap DOMAIN init_data) :
           action_queue \in {InitActions(init_data, order),
                             <<CloseAction>> \o InitActions(init_data, order)}
    /\ is_rendering = FALSE
    /\ exc_info = NoException
    /\ performing_cleanup = FALSE
    /\ progress = 0
    /\ houdini_version = <<>>
    /\ timed_out = FALSE
    /\ reader = [line |-> <<>>, idx |-> 0, error |-> NoException]
    /\ nlines = 0
    /\ log = {}
    /\ started = TRUE
    /\ run_frame = 0
    /\ staged_in_wait = FALSE
    /\ first_trip = "none"
    /\ \E env \in ServerPaths :
           client_main = [env |-> env, exists |-> FALSE, state |-> "launched",
                          error |-> NoException, stdout |-> <<>>]
    /\ rop_node = BasicRopNode
    /\ submitter = NoSubmission
    /\ handler = NoHandler
    /\ regex_callbacks = RegexCallbacks(init_data)
    /\ legacy = NoLegacy

\* mutant of ClientMain: the check that the socket exists is left out
ClientMainNoSocketCheck ==
    /\ client_main.state = "launched"
    /\ IF client_main.env \in {"None", ""}
       THEN /\ client_main' = [client_main EXCEPT !.state = "raised",
                                                  !.error = EnvMissingError]
            /\ \E code \in ExitCodes :
                   houdini_client' = [state |-> "exited", returncode |-> code]
       ELSE \E exists \in BOOLEAN, line \in {VersionLine, ShortVersionLine} :
                /\ client_main' = [client_main EXCEPT !.exists = exists, !.state = "polling",
                                                      !.stdout = <<line>>]
                /\ UNCHANGED houdini_client
    /\ UNCHANGED <<legacy, pc, outcome, ncalls, init_data, rop_node, submitter, handler, regex_callbacks,
                   serverVars, action_queue,
                   handlerVars, performing_cleanup, timed_out, readerVars, log, started,
                   run_frame, histVars>>

\* main(): the environment variable, the socket, then HoudiniClient(server_path), which
\* prints the version line; an OSError that nobody catches ends the process
ClientMain ==
    /\ client_main.state = "launched"
    /\ IF client_main.env \in {"None", ""}
       THEN /\ client_main' = [client_main EXCEPT !.state = "raised",
                                                  !.error = EnvMissingError]
            /\ \E code \in ExitCodes :
                   houdini_client' = [state |-> "exited", returncode |-> code]
       ELSE \E exists \in BOOLEAN :
                IF ~exists
                THEN /\ client_main' =
                            [client_main EXCEPT !.exists = exists, !.state = "raised",
                                                !.error = SocketMissingError(client_main.env)]
                     /\ \E code \in ExitCodes :
                            houdini_client' = [state |-> "exited", returncode |-> code]
                ELSE /\ \E line \in {VersionLine, ShortVersionLine} :
                            client_main' = [client_main EXCEPT !.exists = exists,
                                                              !.state = "polling",
                                                              !.stdout = <<line>>]
                     /\ UNCHANGED houdini_client
    /\ UNCHANGED <<legacy, pc, outcome, ncalls, init_data, rop_node, submitter, handler, regex_callbacks,
                   serverVars, action_queue,
                   handlerVars, performing_cleanup, timed_out, readerVars, log, started,
                   run_frame, histVars>>

\* client.poll(): the client takes the next action from the server; "close" is hou.exit()
(***************************************************************************)
(* HoudiniHandler (houdini_handler.py): what the client does with each     *)
(* action it takes from the server.  What Houdini and the file system      *)
(* answer is chosen with every action: isfile (os.path.isfile of the scene *)
(* path), found (hou.node(path) is not None), nwedges (the number of       *)
(* wedges getwedges returns) and rendered (node.render returned rather     *)
(* than raised hou.OperationFailed).                                       *)
(***************************************************************************)
HandlerEnvs == [isfile : BOOLEAN, found : BOOLEAN, nwedges : {2, 3}, rendered : BOOLEAN]

\* a handler raises: nothing else of the handler changes
HandlerRaises(h, type) == [h EXCEPT !.error = Exception(type, <<>>)]

SetSceneFile(h, data, env) ==
    IF ~env.isfile THEN HandlerRaises(h, "FileNotFoundError") ELSE h

SetRenderNode(h, data, env) ==
    IF ~env.found THEN HandlerRaises(h, "TypeError")
    ELSE [h EXCEPT !.node = data["render_node"]]

SetWedgeNode(h, data, env) ==
    IF data["wedge_node"] # "" /\ env.found THEN [h EXCEPT !.wedge = data["wedge_node"]]
    ELSE h

SetWedgeNum(h, data) == [h EXCEPT !.wedgenum = <<data["wedgenum"]>>]

SetFrame(h, data) == [h EXCEPT !.frame = <<data["frame"]>>]

SetIgnoreInputNodes(h, data) ==
    [h EXCEPT !.ignore_input_nodes = data["ignore_input_nodes"]]

\* mutant of StartRender: the completion marker is printed before anything else is done
StartRenderPrintsFirst(h, data, env) ==
    IF h.node = "None" THEN [HandlerRaises(h, "TypeError") EXCEPT !.printed = @ + 1]
    ELSE IF h.frame = <<>> THEN [HandlerRaises(h, "KeyError") EXCEPT !.printed = @ + 1]
    ELSE [h EXCEPT !.renders = Append(@, [node |-> h.node, frame |-> h.frame[1],
                                         asked |-> data["frame"], wedge |-> 0 - 1,
                                         ignore_inputs |-> h.ignore_input_nodes]),
                   !.printed = @ + 1]

\* start_render: "self.wedge and self.wedgenum" reads the attribute wedgenum only when a
\* wedge node is set, and a wedge number 0 is false; a render is recorded with the frame it
\* used (render_kwargs["frame"]), the frame the action asked for (data["frame"], which the
\* handler does not read) and the wedge that was applied (-1: none)
StartRender(h, data, env) ==
    LET wedged == h.wedge # "None" /\ h.wedgenum # <<>> /\ h.wedgenum[1] # 0
    IN  IF h.node = "None" THEN HandlerRaises(h, "TypeError")
        ELSE IF h.wedge # "None" /\ h.wedgenum = <<>> THEN HandlerRaises(h, "AttributeError")
        ELSE IF wedged /\ ~(0 <= h.wedgenum[1] /\ h.wedgenum[1] < env.nwedges)
             THEN HandlerRaises(h, "ValueError")
        ELSE IF h.frame = <<>> THEN HandlerRaises(h, "KeyError")
        ELSE IF ~env.rendered THEN HandlerRaises(h, "OperationFailed")
        ELSE [h EXCEPT !.renders =
                           Append(@, [node |-> h.node, frame |-> h.frame[1],
                                      asked |-> data["frame"],
                                      wedge |-> IF wedged THEN h.wedgenum[1] ELSE 0 - 1,
                                      ignore_inputs |-> h.ignore_input_nodes]),
                       !.printed = @ + 1]

\* action_dict: the handler of the action, by its name
PerformAction(h, action, env) ==
    LET clean == [h EXCEPT !.error = NoException, !.handled = Append(@, action)]
    IN  CASE action.name = "scene_file" -> SetSceneFile(clean, action.args, env)
          [] action.name = "render_node" -> SetRenderNode(clean, action.args, env)
          [] action.name = "frame" -> SetFrame(clean, action.args)
          [] action.name = "ignore_input_nodes" -> SetIgnoreInputNodes(clean, action.args)
          [] action.name = "wedge_node" -> SetWedgeNode(clean, action.args, env)
          [] action.name = "wedgenum" -> SetWedgeNum(clean, action.args)
          [] action.name = "start_render" -> StartRender(clean, action.args, env)

\* mutant of ClientPoll: the client takes the newest action of the queue
ClientPollNewestFirst ==
    /\ client_main.state = "polling"
    /\ HoudiniIsRunning(houdini_client)
    /\ Len(action_queue) > 0
    /\ action_queue' = SubSeq(action_queue, 1, Len(action_queue) - 1)
    /\ IF action_queue[Len(action_queue)].name = "close"
       THEN /\ houdini_client' = [state |-> "exited", returncode |-> 0]
            /\ client_main' = [client_main EXCEPT !.state = "closed"]
            /\ UNCHANGED handler
       ELSE /\ \E env \in HandlerEnvs :
                   handler' = PerformAction(handler, action_queue[Len(action_queue)], env)
            /\ UNCHANGED <<legacy, houdini_client, client_main>>
    /\ UNCHANGED <<legacy, pc, outcome, ncalls, init_data, rop_node, submitter, regex_callbacks, serverVars,
                   handlerVars,
                   performing_cleanup, timed_out, readerVars, log, started, run_frame, histVars>>

\* poll(): the client takes the action at the head of the queue and performs it; "close" is
\* hou.exit().  The poll loop is in the adaptor runtime, not in this repository: when the
\* handler raises, the exception either ends the subprocess or the loop goes on.
ClientPoll ==
    /\ client_main.state = "polling"
    /\ HoudiniIsRunning(houdini_client)
    /\ Len(action_queue) > 0
    /\ action_queue' = Tail(action_queue)
    /\ IF Head(action_queue).name = "close"
       THEN /\ houdini_client' = [state |-> "exited", returncode |-> 0]
            /\ client_main' = [client_main EXCEPT !.state = "closed"]
            /\ UNCHANGED handler
       ELSE \E env \in HandlerEnvs, survives \in BOOLEAN :
                /\ handler' = PerformAction(handler, Head(action_queue), env)
                /\ IF handler'.error # NoException /\ ~survives
                   THEN /\ \E code \in ExitCodes :
                               houdini_client' = [state |-> "exited", returncode |-> code]
                        /\ client_main' = [client_main EXCEPT !.state = "raised",
                                                              !.error = handler'.error]
                   ELSE UNCHANGED <<legacy, houdini_client, client_main>>
    /\ UNCHANGED <<legacy, pc, outcome, ncalls, init_data, rop_node, submitter, regex_callbacks, serverVars,
                   handlerVars,
                   performing_cleanup, timed_out, readerVars, log, started, run_frame, histVars>>

ClientNext == ClientMain \/ ClientPoll

ClientSpec == ClientInit /\ [][ClientNext]_vars

(***************************************************************************)
(* The adaptor and the client together, from the launch of the subprocess  *)
(* by on_start to the end of two tasks: the client performs the actions,   *)
(* the completion marker it prints is read by the adaptor.  on_stop and    *)
(* on_cleanup are not called.  The calls are counted from the launch.      *)
(***************************************************************************)
\* run_data["frame"] of two tasks
TaskFrames == {<<"1">>, <<"2">>}

HandlerInit ==
    /\ pc = "start_check_running"
    /\ outcome = Pending("on_start")
    /\ ncalls = 0
    /\ init_data \in OptionalInitDatas
    /\ server = "ready"
    /\ server_thread = "alive"
    /\ shutdown_requested = FALSE
    /\ houdini_client = [state |-> "running", returncode |-> 0]
    /\ \E order \in Orders(OPTIONAL_HOUDINI_INIT_KEYS \cap DOMAIN init_data) :
           action_queue = InitActions(init_data, order)
    /\ is_rendering = FALSE
    /\ exc_info = NoException
    /\ performing_cleanup = FALSE
    /\ progress = 0
    /\ houdini_version = <<>>
    /\ timed_out = FALSE
    /\ reader = [line |-> <<>>, idx |-> 0, error |-> NoException]
    /\ nlines = 0
    /\ log = {}
    /\ started = TRUE
    /\ run_frame = 0
    /\ staged_in_wait = FALSE
    /\ first_trip = "none"
    /\ client_main = [env |-> "/tmp/adaptor.sock", exists |-> TRUE, state |-> "polling",
                      error |-> NoException, stdout |-> <<VersionLine>>]
    /\ rop_node = BasicRopNode
    /\ submitter = NoSubmission
    /\ handler = NoHandler
    /\ regex_callbacks = RegexCallbacks(init_data)
    /\ legacy = NoLegacy

\* the reader gets a completion marker that the client has printed
ReadPrinted ==
    /\ nlines < handler.printed
    /\ ReadLineFrom({FinishedLine})

HandlerNext ==
    \/ ClientPoll \/ ReadPrinted \/ HandleComplete
    \/ StartCheckRunning \/ StartCheckException \/ StartCheckQueue \/ StartCheckTimer
    \/ StartFinal
    \/ OnRunOf(TaskFrames) \/ RunEnqueue \/ RunCheckRendering \/ RunCheckException \/ RunFinal

HandlerSpec == HandlerInit /\ [][HandlerNext]_vars

(***************************************************************************)
(* The submitter (houdini_submitter/.../submitter.py): submit_callback of  *)
(* the Deadline Cloud render node, called in the artist's Houdini session. *)
(***************************************************************************)
\* the node, its scene, and get_setting("defaults.farm_id") and get_setting(
\* "defaults.queue_id"), where "None" stands for None
RopNodes ==
    [inputs : BOOLEAN, locked : BOOLEAN, auto_unlock : BOOLEAN, hip_input : BOOLEAN,
     auto_parse : BOOLEAN, unsaved : BOOLEAN, auto_save : BOOLEAN,
     farm_id : {"None", "", "farm-1"}, queue_id : {"None", "", "queue-1"}]

\* hou.ui.displayMessage(text, title=title, ...)
Message(title, text) == [title |-> title, text |-> text]

MissingInputMessage ==
    Message("Missing Input Render Node",
            "The AWS Deadline Cloud render node (ROP) must have an input ROP specified to submit a job")

Show(st, message) == [st EXCEPT !.sub.messages = Append(@, message)]
\* hou.hipFile.save()
Save(st) == [st EXCEPT !.sub.saves = @ + 1, !.node.unsaved = FALSE]

\* "check for locked rops": the dialog, _unlock_node and the save.  The buttons of the
\* three dialogs: 0 and 1 act and save, 2 is "Ignore", 3 is "Cancel"
UnlockStage(st, choice) ==
    IF st.done \/ ~st.node.locked THEN st
    ELSE IF st.node.auto_unlock THEN Save([st EXCEPT !.node.locked = FALSE])
    ELSE LET asked == Show(st, Message("Warning", "Locked ROPs found in network"))
         IN  CASE choice = 3 -> [asked EXCEPT !.done = TRUE]
               [] choice = 0 -> Save([asked EXCEPT !.node.locked = FALSE])
               [] choice = 1 -> Save([asked EXCEPT !.node.locked = FALSE,
                                                   !.node.auto_unlock = TRUE])
               [] OTHER -> asked

\* "check hip is listed in input_filenames": the dialog, _parse_files and the save
ParseStage(st, choice) ==
    IF st.done \/ st.node.hip_input THEN st
    ELSE IF st.node.auto_parse THEN Save([st EXCEPT !.node.hip_input = TRUE])
    ELSE LET asked == Show(st, Message("Warning", "Hip file not found in file references"))
         IN  CASE choice = 3 -> [asked EXCEPT !.done = TRUE]
               [] choice = 0 -> Save([asked EXCEPT !.node.hip_input = TRUE])
               [] choice = 1 -> Save([asked EXCEPT !.node.hip_input = TRUE,
                                                   !.node.auto_parse = TRUE])
               [] OTHER -> asked

\* "check for unsaved changes": the dialog and the save
SaveStage(st, choice) ==
    IF st.done \/ ~st.node.unsaved THEN st
    ELSE IF st.node.auto_save THEN Save(st)
    ELSE LET asked == Show(st, Message("Warning", "Hip file has unsaved changes"))
         IN  CASE choice = 3 -> [asked EXCEPT !.done = TRUE]
               [] choice = 0 -> Save(asked)
               [] choice = 1 -> Save([asked EXCEPT !.node.auto_save = TRUE])
               [] OTHER -> asked

\* the calls of the try block that can raise, in the order they are made
Failures == <<"telemetry", "get_boto3_client", "create_job_bundle", "get_queue">>

\* the try block: the calls up to the one that raises (failure 5: none raises) and the
\* warning of the except clause, with str(exc) as its text; the service takes no farm or
\* queue ID that is None or empty
SubmitStage(st, failure) ==
    IF st.done THEN st
    ELSE LET missing == st.node.farm_id \in {"None", ""} \/ st.node.queue_id \in {"None", ""}
             raises == IF missing /\ failure > 4 THEN 4 ELSE failure
             called == [st EXCEPT !.sub.api_client = raises >= 3,
                                  !.sub.job_bundle = raises >= 4,
                                  !.sub.submission = raises >= 5]
         IN  IF raises <= 4 THEN Show(called, Message("Houdini Job Submission", Failures[raises])) ELSE called

\* mutant of SubmitCallback: the check of the input ancestors is left out
SubmitCallbackNoInputCheck ==
    /\ pc = "idle"
    /\ \E unlock_choice \in 0..3, parse_choice \in 0..3, save_choice \in 0..3,
          failure \in 1..5 :
           LET read == [node |-> rop_node, done |-> FALSE,
                        sub |-> [NoSubmission EXCEPT !.parm_read = TRUE]]
               st == SubmitStage(SaveStage(ParseStage(UnlockStage(read, unlock_choice),
                                                      parse_choice),
                                           save_choice),
                                 failure)
           IN  /\ rop_node' = st.node
               /\ submitter' = st.sub
    /\ UNCHANGED <<legacy, pc, outcome, ncalls, init_data, client_main, handler, regex_callbacks,
                   serverVars, houdini_client,
                   action_queue, handlerVars, performing_cleanup, timed_out, readerVars, log,
                   started, run_frame, histVars>>

\* submit_callback(kwargs) with the answers the user gives and the call that fails
SubmitCallback ==
    /\ pc = "idle"
    /\ IF ~rop_node.inputs
       THEN /\ submitter' = [NoSubmission EXCEPT !.messages = <<MissingInputMessage>>]
            /\ UNCHANGED rop_node
       ELSE \E unlock_choice \in 0..3, parse_choice \in 0..3, save_choice \in 0..3,
               failure \in 1..5 :
                LET read == [node |-> rop_node, done |-> FALSE,
                             sub |-> [NoSubmission EXCEPT !.parm_read = TRUE]]
                    st == SubmitStage(SaveStage(ParseStage(UnlockStage(read, unlock_choice),
                                                           parse_choice),
                                                save_choice),
                                      failure)
                IN  /\ rop_node' = st.node
                    /\ submitter' = st.sub
    /\ UNCHANGED <<legacy, pc, outcome, ncalls, init_data, client_main, handler, regex_callbacks,
                   serverVars, houdini_client,
                   action_queue, handlerVars, performing_cleanup, timed_out, readerVars, log,
                   started, run_frame, histVars>>

SubmitInit == InitOf({BasicInitData}, RopNodes)

SubmitSpec == SubmitInit /\ [][SubmitCallback]_vars

(***************************************************************************)
(* The two variants of the adaptor side by side.  The legacy variant       *)
(* (deadline_adaptor_for_houdini) and the current one wait in on_start for *)
(* the same subprocess, polled at the same instants: the liveness of the   *)
(* subprocess, what it takes from a queue and the clock are one timeline,  *)
(* each variant has its own queue and its own timer, both started with the *)
(* wait.  The legacy on_start does not call _populate_action_queue: it     *)
(* waits with the queue as it finds it and enqueues _FIRST_HOUDINI_ACTIONS *)
(* after the wait.  The queue is the object of the class, so an earlier    *)
(* session of the process may have left a "close" in it.                   *)
(***************************************************************************)
FIRST_HOUDINI_ACTIONS == <<"scene_file", "render_node", "ignore_input_nodes">>

Leftovers == {<<>>, <<CloseAction>>}

\* one pass of the wait of the current on_start and what follows the loop: the outcome,
\* Pending while the wait goes on
StartWaitPass(running, raising, queue, timedout) ==
    IF running /\ raising THEN Raised("on_start", exc_info)
    ELSE IF running /\ Len(queue) > 0
         THEN IF timedout THEN Raised("on_start", StartTimeoutError) ELSE Pending("on_start")
         ELSE IF Len(queue) > 0 THEN Raised("on_start", InitFailedError)
              ELSE Returned("on_start")

\* the loop of the legacy on_start over _FIRST_HOUDINI_ACTIONS, from the i-th on:
\* self.init_data[action_item.name] is a KeyError for a key the payload does not have
RECURSIVE LegacyEnqueueFirst(_, _, _)
LegacyEnqueueFirst(l, data, i) ==
    IF i > Len(FIRST_HOUDINI_ACTIONS)
    THEN [l EXCEPT !.outcome = Returned("on_start"), !.pc = "done"]
    ELSE LET name == FIRST_HOUDINI_ACTIONS[i]
         IN  IF name \notin DOMAIN data
             THEN [l EXCEPT !.outcome = Raised("on_start", Exception("KeyError", <<name>>)),
                            !.pc = "done"]
             ELSE LegacyEnqueueFirst(
                      [l EXCEPT !.action_queue = Append(@, Action(name, name :> data[name]))],
                      data, i + 1)

\* one pass of the wait of the legacy on_start and what follows the loop; is_not_timed_out
\* is true until the timeout, and is asked again after the loop to tell the two errors apart
LegacyStartWaitPass(l, running, raising, data) ==
    IF running /\ raising
    THEN [l EXCEPT !.outcome = Raised("on_start", exc_info), !.pc = "done"]
    ELSE IF running /\ Len(l.action_queue) > 0 /\ ~l.timed_out
         THEN l
         ELSE IF Len(l.action_queue) > 0
              THEN [l EXCEPT !.outcome = Raised("on_start", IF ~l.timed_out
                                                             THEN InitFailedError
                                                             ELSE StartTimeoutError),
                             !.pc = "done"]
              ELSE LegacyEnqueueFirst(l, data, 1)

VariantsInit ==
    /\ pc = "start_check_running"
    /\ outcome = Pending("on_start")
    /\ ncalls = 0
    /\ init_data \in OptionalInitDatas
    /\ server = "ready"
    /\ server_thread = "alive"
    /\ shutdown_requested = FALSE
    /\ houdini_client = [state |-> "running", returncode |-> 0]
    /\ \E leftover \in Leftovers :
           /\ \E order \in Orders(OPTIONAL_HOUDINI_INIT_KEYS \cap DOMAIN init_data) :
                  action_queue = leftover \o InitActions(init_data, order)
           /\ legacy = [pc |-> "wait", outcome |-> Pending("on_start"),
                        action_queue |-> leftover, timed_out |-> FALSE]
    /\ is_rendering = FALSE
    /\ exc_info = NoException
    /\ performing_cleanup = FALSE
    /\ progress = 0
    /\ houdini_version = <<>>
    /\ timed_out = FALSE
    /\ reader = [line |-> <<>>, idx |-> 0, error |-> NoException]
    /\ nlines = 0
    /\ log = {}
    /\ started = TRUE
    /\ run_frame = 0
    /\ staged_in_wait = FALSE
    /\ first_trip = "none"
    /\ client_main = [env |-> "/tmp/adaptor.sock", exists |-> TRUE, state |-> "polling",
                      error |-> NoException, stdout |-> <<VersionLine>>]
    /\ rop_node = BasicRopNode
    /\ submitter = NoSubmission
    /\ handler = NoHandler
    /\ regex_callbacks = RegexCallbacks(init_data)

VariantsWaiting == pc = "start_check_running" \/ legacy.pc = "wait"

\* both variants make one pass of their wait at the same instant
VariantsPoll ==
    /\ VariantsWaiting
    /\ LET running == HoudiniIsRunning(houdini_client)
           raising == HasException(exc_info, performing_cleanup) = "raise"
           result == StartWaitPass(running, raising, action_queue, timed_out)
       IN  /\ IF pc = "start_check_running" /\ result # Pending("on_start")
              THEN /\ outcome' = result
                   /\ timed_out' = FALSE
                   /\ pc' = "idle"
              ELSE UNCHANGED <<pc, outcome, timed_out>>
           /\ legacy' = IF legacy.pc = "wait"
                        THEN LegacyStartWaitPass(legacy, running, raising, init_data)
                        ELSE legacy
    /\ UNCHANGED <<ncalls, init_data, client_main, rop_node, submitter, handler,
                   regex_callbacks, serverVars, houdini_client, action_queue, handlerVars,
                   performing_cleanup, readerVars, log, started, run_frame, histVars>>

\* the subprocess takes the next action of the queue it is given, of either variant
VariantsDequeue ==
    /\ VariantsWaiting
    /\ HoudiniIsRunning(houdini_client)
    /\ Len(action_queue) > 0 \/ Len(legacy.action_queue) > 0
    /\ action_queue' = IF Len(action_queue) > 0 THEN Tail(action_queue) ELSE action_queue
    /\ legacy' = [legacy EXCEPT !.action_queue = IF Len(@) > 0 THEN Tail(@) ELSE @]
    /\ UNCHANGED <<pc, outcome, ncalls, init_data, client_main, rop_node, submitter, handler,
                   regex_callbacks, serverVars, houdini_client, handlerVars,
                   performing_cleanup, timed_out, readerVars, log, started, run_frame,
                   histVars>>

\* the subprocess ends
VariantsClientExit ==
    /\ VariantsWaiting
    /\ HoudiniIsRunning(houdini_client)
    /\ \E code \in ExitCodes :
           houdini_client' = [state |-> "exited", returncode |-> code]
    /\ UNCHANGED <<pc, outcome, ncalls, init_data, toolVars, serverVars, action_queue,
                   handlerVars, performing_cleanup, timed_out, readerVars, log, started,
                   run_frame, histVars>>

\* _HOUDINI_START_TIMEOUT_SECONDS, the same in both variants, have passed since the launch
VariantsTimeElapses ==
    /\ VariantsWaiting
    /\ ~legacy.timed_out
    /\ legacy' = [legacy EXCEPT !.timed_out = TRUE]
    /\ timed_out' = (pc = "start_check_running")
    /\ UNCHANGED <<pc, outcome, ncalls, init_data, client_main, rop_node, submitter, handler,
                   regex_callbacks, serverVars, houdini_client, action_queue, handlerVars,
                   performing_cleanup, readerVars, log, started, run_frame, histVars>>

VariantsNext == VariantsPoll \/ VariantsDequeue \/ VariantsClientExit \/ VariantsTimeElapses

VariantsSpec == VariantsInit /\ [][VariantsNext]_vars

(***************************************************************************)
(* Claims.                                                                 *)
(***************************************************************************)
StartPcs == StartWaitPcs \cup {"start_final"}
RunPcs == RunWaitPcs \cup {"run_final"}

\* the step with which the main thread ends the startup wait of on_start
StartEnds == pc \in StartPcs /\ pc' = "idle"
\* the step with which the main thread ends the render wait of on_run
RunEnds == pc \in RunPcs /\ pc' = "idle"

IsInitAction(action) ==
    \/ \E i \in 1..Len(REQUIRED_HOUDINI_INIT_KEYS) : action.name = REQUIRED_HOUDINI_INIT_KEYS[i]
    \/ action.name \in OPTIONAL_HOUDINI_INIT_KEYS

\* C1: on_start returns normally only with an empty action queue; every other end of
\* the startup wait raises TimeoutError or RuntimeError.
C1_StartReturnsOnlyDrained ==
    [][StartEnds =>
           IF outcome'.type = "returned"
           THEN Len(action_queue) = 0 /\ Len(action_queue') = 0
           ELSE outcome'.type \in {"TimeoutError", "RuntimeError"}]_vars

C1_Witness ==
    /\ pc = "idle"
    /\ outcome = Returned("on_start")
    /\ houdini_client.state = "running"
    /\ Len(action_queue) = 0

\* C2 (as claimed): a fatal condition staged during the render wait of on_run makes
\* on_run end by raising exactly the staged error.
C2_StagedErrorRaisedByRun ==
    [][(RunEnds /\ staged_in_wait) => outcome' = Raised("on_run", exc_info)]_vars

\* C3 (as claimed): once the pending-exception slot holds an error, no later line
\* replaces it.
C3_SlotSetAtMostOnce ==
    [][exc_info # NoException => exc_info' = exc_info]_vars

\* C4 (as claimed): when the subprocess stops being alive during the render wait with the
\* rendering flag still true, on_run raises HoudiniNotRunningError with the exit code.
C4_DeathRaisesNotRunning ==
    [][(RunEnds /\ first_trip = "exit") =>
           outcome' = Raised("on_run", ExitedEarlyError(houdini_client.returncode))]_vars

\* C4 (amended): in that case on_run ends by raising, never by returning: it raises
\* HoudiniNotRunningError with the recorded exit code, or, when a fatal condition is
\* staged, possibly the staged error instead; with nothing staged it is always
\* HoudiniNotRunningError.
C4_DeathRaises ==
    [][(RunEnds /\ first_trip = "exit") =>
           \/ outcome' = Raised("on_run", ExitedEarlyError(houdini_client.returncode))
           \/ exc_info # NoException /\ outcome' = Raised("on_run", exc_info)]_vars

C4_Witness ==
    /\ pc = "idle"
    /\ first_trip = "exit"
    /\ houdini_client.state = "exited"
    /\ outcome = Raised("on_run", ExitedEarlyError(houdini_client.returncode))

\* C5: on_run called while no subprocess is alive raises HoudiniNotRunningError at once,
\* enqueues nothing and leaves the rendering flag as it was.
C5_RunNotRunning ==
    [][(pc = "idle" /\ ncalls' = ncalls + 1 /\ outcome'.op = "on_run"
        /\ ~HoudiniIsRunning(houdini_client)) =>
           /\ outcome' = Raised("on_run", NotRunningError)
           /\ pc' = "idle"
           /\ action_queue' = action_queue
           /\ is_rendering' = is_rendering]_vars

C5_Witness ==
    /\ pc = "idle"
    /\ outcome = Raised("on_run", NotRunningError)
    /\ houdini_client.state = "exited"
    /\ Len(action_queue) > 0

\* C6 (as claimed): a fatal condition staged during the startup wait of on_start makes
\* on_start end by raising exactly the staged error.
C6_StagedErrorRaisedByStart ==
    [][(StartEnds /\ staged_in_wait) => outcome' = Raised("on_start", exc_info)]_vars

\* C7: on_cleanup never raises; a subprocess still alive after the exit wait and a server
\* thread still alive after the join are each logged as an error and cleanup goes on.
C7_CleanupNeverRaises ==
    [][/\ outcome'.op = "on_cleanup" => outcome'.type \in {"pending", "returned"}
       /\ (pc = "cleanup_terminate" /\ pc' # pc /\ HoudiniIsRunning(houdini_client)) =>
              NotGracefulLog \in log' /\ pc' = "cleanup_shutdown"
       /\ (pc = "cleanup_join" /\ pc' # pc /\ server_thread = "alive") =>
              ServerShutdownLog \in log' /\ pc' = "cleanup_done"]_vars

C7_Witness ==
    /\ pc = "idle"
    /\ outcome = Returned("on_cleanup")
    /\ exc_info # NoException
    /\ log = {NotGracefulLog, ServerShutdownLog}

\* C8: every call of on_cleanup returns, with the cleanup flag cleared, also when the
\* subprocess never exits on its own and the server thread never stops.
C8_CleanupReturns ==
    (outcome = Pending("on_cleanup")) ~>
        (pc = "idle" /\ outcome = Returned("on_cleanup") /\ ~performing_cleanup)

C8_Witness ==
    /\ pc = "idle"
    /\ outcome = Returned("on_cleanup")
    /\ ~performing_cleanup
    /\ server_thread = "alive"
    /\ houdini_client.returncode \in {SIGTERM, SIGKILL}
    /\ NotGracefulLog \in log

\* C9 (as claimed): with the queue non-empty the error of on_start is decided by what
\* happened first: TimeoutError if the timeout elapsed before the subprocess exited,
\* RuntimeError if the subprocess exited before the timeout elapsed.
C9_FirstTripDecides ==
    [][(StartEnds /\ Len(action_queue) > 0) =>
           /\ first_trip = "timeout" => outcome'.type = "TimeoutError"
           /\ first_trip \in {"exit", "exit_in_poll"} => outcome'.type = "RuntimeError"]_vars

\* C9 (amended): the error is decided by what the poll observes.  A subprocess that exits
\* before the timeout elapses and before the liveness check of a poll gives RuntimeError;
\* TimeoutError is raised only after the timeout elapsed, and when the timeout elapsed
\* first it is raised if the subprocess is still alive and nothing is staged at the end
\* of the wait; otherwise the error is RuntimeError.
C9_PollDecides ==
    [][(StartEnds /\ Len(action_queue) > 0) =>
           /\ outcome'.type \in {"TimeoutError", "RuntimeError"}
           /\ first_trip = "exit" => outcome'.type = "RuntimeError"
           /\ outcome'.type = "TimeoutError" =>
                  timed_out /\ first_trip \in {"timeout", "exit_in_poll"}
           /\ (first_trip = "timeout" /\ HoudiniIsRunning(houdini_client)
               /\ exc_info = NoException) => outcome'.type = "TimeoutError"]_vars

C9_Witness ==
    /\ pc = "idle"
    /\ outcome = Raised("on_start", InitFailedError)
    /\ first_trip = "timeout"
    /\ Len(action_queue) > 0

\* C10: when the address of the control server is not available at the end of
\* _wait_for_socket, on_start raises RuntimeError, no startup action is in the queue and
\* no subprocess was spawned.
C10_NoSocketNoRender ==
    [][(pc = "socket_done" /\ pc' # pc /\ server # "ready") =>
           /\ pc' = "idle"
           /\ outcome' = Raised("on_start", SocketError)
           /\ houdini_client'.state = "none"
           /\ \A i \in 1..Len(action_queue') : ~IsInitAction(action_queue'[i])]_vars

C10_Witness ==
    /\ pc = "idle"
    /\ outcome = Raised("on_start", SocketError)
    /\ houdini_client.state = "none"
    /\ server # "ready"
    /\ action_queue = <<>>


\* the step with which the main thread calls the lifecycle operation op
Called(op) == pc = "idle" /\ ncalls' = ncalls + 1 /\ outcome'.op = op

\* the step with which RegexHandler.emit of the given line is over
EmitEnds(line) == reader.line = line /\ reader.idx # 0 /\ reader'.idx = 0

Strict == "strict_error_checking" \in DOMAIN init_data /\ init_data["strict_error_checking"]

C11_RunWitness ==
    /\ pc = "idle"
    /\ outcome.op = "on_run"
    /\ outcome.type = "ValueError"
    /\ houdini_client.state = "running"
    /\ ~is_rendering

\* C12: _populate_action_queue appends one action for scene_file, then one for
\* render_node, then exactly one for each optional key present in init_data and none for
\* an absent key; the payload of each action is the single pair {key: init_data[key]}.
C12_StartupActions ==
    [][(pc = "start_populate" /\ pc' # "start_populate") =>
           LET old == Len(action_queue)
               added == SubSeq(action_queue', old + 1, Len(action_queue'))
               present == {"ignore_input_nodes", "wedgenum", "wedge_node"} \cap DOMAIN init_data
           IN  /\ SubSeq(action_queue', 1, old) = action_queue
               /\ Len(added) = 2 + Cardinality(present)
               /\ added[1] = [name |-> "scene_file",
                              args |-> ("scene_file" :> init_data["scene_file"])]
               /\ added[2] = [name |-> "render_node",
                              args |-> ("render_node" :> init_data["render_node"])]
               /\ \A i \in 3..Len(added) : added[i].name \in present
               /\ \A key \in present :
                      Cardinality({i \in 3..Len(added) :
                                      added[i] = [name |-> key,
                                                  args |-> (key :> init_data[key])]}) = 1]_vars

C12_Witness ==
    /\ pc = "start_client"
    /\ Len(action_queue) = 4
    /\ action_queue[1].name = "scene_file"
    /\ action_queue[2].name = "render_node"
    /\ action_queue[3] = [name |-> "wedgenum", args |-> ("wedgenum" :> 2)]
    /\ action_queue[4] = [name |-> "ignore_input_nodes",
                          args |-> ("ignore_input_nodes" :> TRUE)]
    /\ "wedge_node" \notin DOMAIN init_data

\* C13: with strict error checking off, classifying the line "Error: boom" leaves the
\* pending-exception slot as it was; with strict error checking on, the emit of that line
\* ends with the slot holding RuntimeError("Houdini Encountered an Error: Error: boom").
C13_StrictDecidesError ==
    [][/\ (~Strict /\ reader'.line = ErrorLine) => exc_info' = exc_info
       /\ (Strict /\ EmitEnds(ErrorLine)) =>
              exc_info' = [type |-> "RuntimeError",
                           msg |-> <<"Houdini Encountered an Error: ">> \o ErrorLine]]_vars

C13_Witness ==
    /\ Strict
    /\ reader.line = ErrorLine
    /\ reader.idx = 0
    /\ exc_info = [type |-> "RuntimeError",
                   msg |-> <<"Houdini Encountered an Error: ">> \o ErrorLine]

\* C13, strict error checking off: the line was classified and the slot is empty
C13_OffWitness ==
    /\ ~Strict
    /\ reader.line = ErrorLine
    /\ reader.idx = 0
    /\ exc_info = NoException

\* C14: the emit of the license-failure marker line ends with the pending-exception slot
\* holding the license error, whose message has the matched line and the free space as a
\* non-negative integer number of MiB, whether strict error checking is on or off.
C14_LicenseAlwaysStaged ==
    [][EmitEnds(LicenseLine) =>
           \E free \in FreeBytes :
               LET mib == (free \div 1024) \div 1024
               IN  /\ mib \in Nat
                   /\ exc_info' =
                          [type |-> "RuntimeError",
                           msg |-> LicenseLine
                                   \o <<"\n",
                                        "This error is typically associated with a licensing error",
                                        " when using Houdini. Check your licensing configuration.\n",
                                        "Free disc space: ">>
                                   \o NatStr(mib) \o <<"M\n">>]]_vars

C14_Witness ==
    /\ Strict
    /\ reader.line = LicenseLine
    /\ reader.idx = 0
    /\ reader.error = NoException
    /\ exc_info \in {LicenseException(LicenseLine, free) : free \in FreeBytes}

\* C14, strict error checking off
C14_OffWitness ==
    /\ ~Strict
    /\ reader.line = LicenseLine
    /\ reader.idx = 0
    /\ exc_info \in {LicenseException(LicenseLine, free) : free \in FreeBytes}

\* C15 (as claimed): the emit of a line with the completion marker "Finished Rendering"
\* ends with the rendering flag false and progress 100 reported.
C15_CompletionClearsFlag ==
    [][EmitEnds(FinishedLine) => (~is_rendering' /\ progress' = 100)]_vars

\* C16 (as claimed): for every N from 0 to 100 the emit of "ALF_PROGRESS N%" ends with
\* progress N reported.
C16_ProgressExact ==
    [][\A n \in 0..100 : EmitEnds(ProgressLineOf(n)) => progress' = n]_vars

\* C17 (as claimed): the version handler never raises, and the emit of either form of the
\* version line ends with the version text of the line recorded.
C17_VersionBothForms ==
    [][\A line \in {VersionLine, ShortVersionLine} :
           EmitEnds(line) =>
               /\ reader'.error = NoException
               /\ houdini_version' = SubSeq(line, Len(VersionText) + 1, Len(line))]_vars

\* C18: on_cancel with a live subprocess terminates it with grace time 0, enqueues nothing
\* and changes neither the rendering flag nor the pending-exception slot.
C18_CancelKills ==
    [][(OnCancel /\ houdini_client.state = "running") =>
           /\ houdini_client' = [state |-> "exited", returncode |-> SIGKILL]
           /\ UNCHANGED <<action_queue, is_rendering, exc_info>>]_vars

C18_Witness ==
    /\ pc \in RunWaitPcs
    /\ is_rendering
    /\ houdini_client = [state |-> "exited", returncode |-> SIGKILL]
    /\ log = {CancelRequestedLog}
    /\ Len(action_queue) > 0

\* C19: on_cancel with no subprocess attached, or with one that is no longer alive, only
\* logs that there is nothing to cancel: the subprocess record, the queue, the rendering
\* flag, the pending-exception slot and the server stay as they were.
C19_CancelNothing ==
    [][(OnCancel /\ houdini_client.state # "running") =>
           /\ log' = log \cup {CancelRequestedLog, NothingToCancelLog}
           /\ UNCHANGED <<houdini_client, action_queue, is_rendering, exc_info, server,
                          server_thread, shutdown_requested>>]_vars

C19_Witness ==
    /\ NothingToCancelLog \in log
    /\ houdini_client = [state |-> "exited", returncode |-> 1]
    /\ Len(action_queue) > 0

\* C19, no subprocess attached
C19_NoneWitness ==
    /\ NothingToCancelLog \in log
    /\ houdini_client.state = "none"

\* C20: on_stop puts exactly one "close" action at the head of the queue and returns at
\* once; it changes neither the subprocess, the server, the rendering flag nor the
\* pending-exception slot.
C20_StopEnqueuesClose ==
    [][Called("on_stop") =>
           /\ action_queue' = <<[name |-> "close", args |-> <<>>]>> \o action_queue
           /\ outcome' = Returned("on_stop")
           /\ pc' = "idle"
           /\ UNCHANGED <<houdini_client, server, server_thread, shutdown_requested,
                          is_rendering, exc_info>>]_vars

C20_Witness ==
    /\ pc = "idle"
    /\ outcome = Returned("on_stop")
    /\ houdini_client.state = "running"
    /\ Len(action_queue) >= 2
    /\ action_queue[1].name = "close"
    /\ action_queue[2].name # "close"

\* the queue holds a "close" action the client has not taken yet
ClosePending(queue) == \E i \in 1..Len(queue) : queue[i].name = "close"

\* C21: an action enqueued at the front goes ahead of every action already in the queue
\* and an action enqueued at the back behind all of them; the client takes the head.  So
\* after on_stop or on_cleanup the next action the client receives is "close", ahead of
\* any startup or run action not yet consumed.
C21_FrontBeforeBack ==
    [][/\ (Called("on_stop") \/ Called("on_cleanup")) =>
              /\ Head(action_queue').name = "close"
              /\ Tail(action_queue') = action_queue
       /\ (Len(action_queue') > Len(action_queue)
           /\ ~(Called("on_stop") \/ Called("on_cleanup"))) =>
              SubSeq(action_queue', 1, Len(action_queue)) = action_queue
       /\ Len(action_queue') < Len(action_queue) =>
              /\ action_queue' = Tail(action_queue)
              /\ ClosePending(action_queue) => Head(action_queue).name = "close"]_vars

\* the client took "close" ahead of the startup actions on_start had left in the queue
C21_Witness ==
    /\ outcome = Returned("on_stop")
    /\ Len(action_queue) >= 2
    /\ ~ClosePending(action_queue)
    /\ action_queue[1].name = "scene_file"
    /\ action_queue[2].name = "render_node"

\* C22 (as claimed): every progress value the adaptor reports is in 0..100, whatever lines
\* the subprocess prints.
C22_ProgressInRange ==
    [][progress' # progress => progress' \in 0..100]_vars

\* C23: main() of the client starts polling only if HOUDINI_ADAPTOR_SERVER_PATH is set to a
\* non-empty value and that path exists; otherwise it raises OSError and never polls, so
\* it takes no action from the queue.
C23_PollsOnlyWithSocket ==
    [][/\ client_main'.state = "polling" =>
              /\ client_main'.env \notin {"None", ""}
              /\ client_main'.exists
       /\ (client_main.state = "launched" /\ client_main'.state # "launched"
           /\ (client_main'.env \in {"None", ""} \/ ~client_main'.exists)) =>
              /\ client_main'.state = "raised"
              /\ client_main'.error.type = "OSError"
       /\ client_main.state \notin {"launched", "polling"} =>
              /\ client_main'.state = client_main.state
              /\ action_queue' = action_queue]_vars

\* the variable is set and the socket exists: the client polls and has taken an action
C23_Witness ==
    /\ client_main.state = "polling"
    /\ client_main.env = "/tmp/adaptor.sock"
    /\ client_main.exists
    /\ Len(client_main.stdout) = 1
    /\ Len(action_queue) = 1

\* C23, the variable is set and the socket is missing: OSError, nothing was taken
C23_SocketWitness ==
    /\ client_main.state = "raised"
    /\ client_main.error = SocketMissingError("/tmp/adaptor.sock")
    /\ houdini_client.state = "exited"
    /\ Len(action_queue) >= 2

\* C23, the variable is empty: OSError, nothing was taken
C23_EnvWitness ==
    /\ client_main.state = "raised"
    /\ client_main.error = EnvMissingError
    /\ client_main.env = ""
    /\ houdini_client.state = "exited"
    /\ Len(action_queue) >= 2

\* C24: for a render node without input ancestors submit_callback shows exactly one
\* "Missing Input Render Node" warning and returns: it reads no parameter of the node,
\* saves nothing, creates no job bundle and starts no submission.
C24_MissingInputsOnlyWarns ==
    [][(submitter' # submitter /\ ~rop_node.inputs) =>
           /\ Len(submitter'.messages) = 1
           /\ submitter'.messages[1].title = "Missing Input Render Node"
           /\ ~submitter'.parm_read
           /\ submitter'.saves = 0
           /\ ~submitter'.api_client
           /\ ~submitter'.job_bundle
           /\ ~submitter'.submission
           /\ rop_node' = rop_node]_vars

\* a locked, unsaved node without inputs: one warning and nothing else
C24_Witness ==
    /\ ~rop_node.inputs
    /\ rop_node.locked
    /\ rop_node.unsaved
    /\ submitter.messages = <<MissingInputMessage>>
    /\ submitter.saves = 0

\* C25 (as claimed): for a render node with an input, when the configured farm ID or queue
\* ID is None or empty submit_callback shows exactly one warning, the one that asks to
\* configure that ID, and neither obtains an API client nor starts a submission.
C25_MissingIdOnlyWarns ==
    [][(submitter' # submitter /\ rop_node.inputs
        /\ (rop_node.farm_id \in {"None", ""} \/ rop_node.queue_id \in {"None", ""})) =>
           /\ Len(submitter'.messages) = 1
           /\ submitter'.messages[1].title \in {"Farm ID Required", "Queue ID Required"}
           /\ ~submitter'.api_client
           /\ ~submitter'.submission]_vars

\* the poll loops of the main thread that are given a timer
TimedLoopPcs == {"socket_check_server", "socket_check_timer", "cleanup_check_running",
                 "cleanup_check_timer"} \cup StartWaitPcs

\* C26 (as claimed): each of the four poll loops of the main thread has a timeout of its
\* own and stops waiting once it has elapsed: the main thread is never in a poll loop
\* for ever, whatever the subprocess and the server do.
C26_EveryLoopEnds ==
    []<>(pc \notin TimedLoopPcs \cup RunWaitPcs)

\* C26 (amended): the waits for the server address, for the startup actions to drain and
\* for the subprocess to exit during cleanup each have a timeout of their own and stop
\* waiting once it has elapsed; the wait for a render to finish has no timeout: it ends
\* only when the subprocess is not rendering any more or a staged error is raised.
C26_TimedLoopsEnd ==
    /\ []<>(pc \notin TimedLoopPcs)
    /\ [][(pc \in RunWaitPcs /\ pc' \notin RunWaitPcs) =>
              \/ ~HoudiniIsRendering(houdini_client, is_rendering)
              \/ exc_info # NoException /\ outcome' = Raised("on_run", exc_info)]_vars

\* the exit wait of on_cleanup was ended by its timeout with the subprocess still alive
C26_Witness ==
    /\ pc = "cleanup_terminate"
    /\ timed_out
    /\ houdini_client.state = "running"
    /\ Len(action_queue) > 1

\* an exception is staged and cleanup is not in progress
StagedOutsideCleanup == exc_info # NoException /\ ~performing_cleanup

\* C27: every evaluation of the exception check raises the staged exception while one is
\* staged and cleanup is not in progress; it returns false without raising when none is
\* staged, and while the cleanup flag is set even though one is staged.  The check is
\* evaluated by the polls of on_start and on_run and by the guard of the completion handler.
C27_CheckRaisesWhileStaged ==
    [][/\ (pc = "start_check_exception" /\ pc' # pc) =>
              IF StagedOutsideCleanup
              THEN pc' = "idle" /\ outcome' = Raised("on_start", exc_info)
              ELSE pc' = "start_check_queue" /\ outcome' = outcome
       /\ (pc = "run_check_exception" /\ pc' # pc) =>
              IF StagedOutsideCleanup
              THEN pc' = "idle" /\ outcome' = Raised("on_run", exc_info)
              ELSE pc' = "run_check_rendering" /\ outcome' = outcome
       /\ (Handling("_handle_complete") /\ reader' # reader) =>
              IF StagedOutsideCleanup
              THEN reader'.error = exc_info
              ELSE reader'.error = NoException /\ ~is_rendering' /\ progress' = 100]_vars

\* an exception is staged, cleanup is in progress, and the check let the completion
\* handler run
C27_Witness ==
    /\ performing_cleanup
    /\ exc_info # NoException
    /\ reader = [line |-> FinishedLine, idx |-> 0, error |-> NoException]
    /\ progress = 100

\* C27: the check raised in the poll of on_run
C27_RunWitness ==
    /\ pc = "idle"
    /\ exc_info # NoException
    /\ outcome = Raised("on_run", exc_info)
    /\ houdini_client.state = "running"

\* a step of a handler wrapped in _check_for_exception
GuardedHandlerStep ==
    /\ Handling("_handle_complete") \/ Handling("_handle_progress")
    /\ reader' # reader

\* what a guarded handler does when the guard lets it run
GuardedHandlerRuns ==
    IF Handling("_handle_complete")
    THEN ~is_rendering' /\ progress' = 100 /\ reader'.error = NoException
    ELSE /\ is_rendering' = is_rendering
         /\ IF ParseProgress(reader.line) # <<>>
            THEN progress' = ParseProgress(reader.line)[1] /\ reader'.error = NoException
            ELSE progress' = progress /\ reader'.error.type = "ValueError"

\* C28: a guarded handler invoked on the reader thread while an exception is
\* staged and cleanup is not in progress changes neither the rendering flag nor the
\* progress and does not raise on the reader thread; in cleanup the handler runs normally.
C28_GuardIsSilentNoOp ==
    [][GuardedHandlerStep =>
          IF StagedOutsideCleanup
          THEN /\ is_rendering' = is_rendering
               /\ progress' = progress
               /\ reader'.error = NoException
          ELSE GuardedHandlerRuns]_vars

\* C29: once the pending-exception slot is non-empty it stays non-empty: no step of a
\* lifecycle operation and no handler empties it, and when an on_cleanup that followed a
\* fatal error ends, the exception check raises again.
C29_SlotNeverCleared ==
    [][/\ exc_info # NoException => exc_info' # NoException
       /\ (pc = "cleanup_done" /\ pc' = "idle" /\ exc_info # NoException) =>
              HasException(exc_info', performing_cleanup') = "raise"]_vars

\* on_cleanup has returned after a fatal error made on_start raise, and the error is still
\* staged with the cleanup flag cleared
C29_Witness ==
    /\ pc = "idle"
    /\ outcome = Returned("on_cleanup")
    /\ ncalls = 2
    /\ exc_info # NoException
    /\ ~performing_cleanup
\* C30: a newly constructed adaptor starts with an empty action queue, no pending exception
\* and the rendering flag false, whatever an earlier adaptor of the same process enqueued
\* or set.
C30_NewAdaptorStartsClean ==
    [][NewAdaptor => /\ action_queue' = <<>>
                     /\ exc_info' = NoException
                     /\ ~is_rendering']_vars
\* the positions of the main thread inside on_cleanup
CleanupPcs == {"cleanup_check_running", "cleanup_check_timer", "cleanup_terminate",
               "cleanup_shutdown", "cleanup_join", "cleanup_done"}

\* C31: at the end of its exit wait on_cleanup terminates the subprocess exactly when it is
\* still alive, and never one that exited on its own; the server is asked to shut down only
\* by on_cleanup, after the terminate step and with the subprocess not alive; nothing is
\* asked of the server once the join has begun; the cleanup flag stays set during all of
\* on_cleanup and is cleared by its last step.
C31_CleanupOrder ==
    /\ [][/\ (pc = "cleanup_terminate" /\ pc' # pc) =>
                /\ pc' = "cleanup_shutdown"
                /\ (houdini_client' # houdini_client) = HoudiniIsRunning(houdini_client)
                /\ (NotGracefulLog \in log') = HoudiniIsRunning(houdini_client)
                /\ ~HoudiniIsRunning(houdini_client')
          /\ (pc \in CleanupPcs \ {"cleanup_terminate"} /\ houdini_client' # houdini_client) =>
                pc' = pc
          /\ shutdown_requested' # shutdown_requested =>
                /\ pc = "cleanup_shutdown"
                /\ pc' \in {"cleanup_join", "cleanup_done"}
                /\ ~HoudiniIsRunning(houdini_client)
                /\ server # "none"
          /\ (pc = "cleanup_shutdown" /\ pc' # pc) => shutdown_requested' = (server # "none")
          /\ (performing_cleanup /\ ~performing_cleanup') =>
                /\ pc = "cleanup_done"
                /\ pc' = "idle"
                /\ outcome' = Returned("on_cleanup")]_vars
    /\ [](pc \in CleanupPcs => performing_cleanup)

\* on_cleanup has returned after it terminated a subprocess that was still alive when the
\* exit wait timed out, shut the server down and joined its thread
C31_Witness ==
    /\ pc = "idle"
    /\ outcome = Returned("on_cleanup")
    /\ NotGracefulLog \in log
    /\ houdini_client.returncode \in {SIGTERM, SIGKILL}
    /\ shutdown_requested
    /\ server_thread = "dead"
    /\ ~performing_cleanup

\* C31: on_cleanup has returned and the subprocess had exited on its own during the exit
\* wait: it was not terminated
C31_ExitedWitness ==
    /\ pc = "idle"
    /\ outcome = Returned("on_cleanup")
    /\ houdini_client.state = "exited"
    /\ NotGracefulLog \notin log
    /\ shutdown_requested
\* C32: on_run appends to the queue the "frame" action and then the "start_render" action,
\* both with the frame of the task as an integer, and it puts nothing else into the queue:
\* during the rest of on_run the queue only loses actions at its head.
C32_RunEnqueuesFrameThenRender ==
    [][/\ (pc = "run_enqueue" /\ pc' # pc) =>
              /\ run_frame \in Nat
              /\ action_queue' = action_queue
                                  \o <<Action("frame", "frame" :> run_frame),
                                       Action("start_render", "frame" :> run_frame)>>
       /\ (pc' = "run_enqueue" /\ pc # pc') =>
              /\ action_queue' = action_queue
              /\ \E text \in RunFrames : run_frame' = FrameOf(text) /\ text = IntStr(run_frame')
       /\ (pc \in RunPcs \ {"run_enqueue"} /\ action_queue' # action_queue) =>
              action_queue' = Tail(action_queue)]_vars

\* on_run has enqueued its two actions for frame 1 and is in the render wait
C32_Witness ==
    /\ pc = "run_check_rendering"
    /\ run_frame = 1
    /\ Len(action_queue) >= 2
    /\ action_queue[Len(action_queue) - 1] = Action("frame", "frame" :> 1)
    /\ action_queue[Len(action_queue)] = Action("start_render", "frame" :> 1)
\* C33: on_run returns normally only with the rendering flag cleared and the subprocess
\* alive at its last check; the flag is set by on_run before it enqueues anything, and only
\* the completion handler, classifying a completion line, clears it: so a normal return
\* means that a completion line was classified after on_run set the flag.
C33_ReturnsOnlyAfterCompletion ==
    [][/\ (pc = "run_final" /\ pc' = "idle" /\ outcome'.type = "returned") =>
              /\ ~is_rendering
              /\ HoudiniIsRunning(houdini_client)
       /\ (~is_rendering /\ is_rendering') =>
              /\ pc = "idle"
              /\ pc' = "run_enqueue"
              /\ action_queue' = action_queue
       /\ (pc = "run_enqueue" /\ pc' # pc /\ is_rendering) => is_rendering'
       /\ (is_rendering /\ ~is_rendering') =>
              /\ Handling("_handle_complete")
              /\ Contains(reader.line, FinishedText)
              /\ HasException(exc_info, performing_cleanup) = "false"]_vars

\* on_run has returned normally: the completion line was classified during the render wait
\* and the subprocess is alive
C33_Witness ==
    /\ pc = "idle"
    /\ outcome = Returned("on_run")
    /\ ~is_rendering
    /\ progress = 100
    /\ reader.line = FinishedLine
    /\ HoudiniIsRunning(houdini_client)
\* on_run is going on and on_cancel has killed the subprocess
CancelKilledRun ==
    /\ outcome = Pending("on_run")
    /\ houdini_client = [state |-> "exited", returncode |-> SIGKILL]
    /\ CancelRequestedLog \in log

\* on_run has ended by raising
RunRaised ==
    /\ pc = "idle"
    /\ outcome.op = "on_run"
    /\ outcome.type \in {"HoudiniNotRunningError", "RuntimeError"}

\* C34: once on_cancel has killed the subprocess during on_run, on_run does not return
\* normally, the render wait is left at its next check of the subprocess, and on_run ends
\* by raising.
C34_CancelEndsRunByRaising ==
    /\ [][/\ (CancelKilledRun /\ pc' = "idle") =>
                /\ outcome'.op = "on_run"
                /\ outcome'.type \in {"HoudiniNotRunningError", "RuntimeError"}
          /\ (CancelKilledRun /\ pc = "run_check_rendering" /\ pc' # pc) =>
                pc' = "run_final"]_vars
    /\ (CancelKilledRun ~> RunRaised)

\* on_cancel killed the subprocess during the render wait and on_run has raised the error
\* of a subprocess that exited early, with the return code of the kill
C34_Witness ==
    /\ pc = "idle"
    /\ outcome = Raised("on_run", ExitedEarlyError(SIGKILL))
    /\ CancelRequestedLog \in log
    /\ is_rendering
    /\ Len(action_queue) = 0
\* C35: on_start launches the subprocess only with the address of the server published,
\* observed and written to HOUDINI_ADAPTOR_SERVER_PATH, and with every startup action of
\* the payload at the end of the queue; the environment variable is written only by on_start
\* after it saw the address, and a subprocess that was launched never finds the address or
\* the variable unset.
C35_SpawnAfterServerAndQueue ==
    /\ [][/\ (houdini_client.state = "none" /\ houdini_client'.state # "none") =>
                /\ pc = "start_client"
                /\ server = "ready"
                /\ client_main.env = "/tmp/adaptor.sock"
                /\ \E order \in Orders(OPTIONAL_HOUDINI_INIT_KEYS \cap DOMAIN init_data) :
                       LET actions == InitActions(init_data, order)
                       IN  /\ Len(action_queue) >= Len(actions)
                           /\ SubSeq(action_queue, Len(action_queue) - Len(actions) + 1,
                                     Len(action_queue)) = actions
          /\ client_main'.env # client_main.env =>
                /\ pc = "socket_done"
                /\ server = "ready"
                /\ houdini_client.state = "none"
                /\ client_main'.env = "/tmp/adaptor.sock"
          /\ (pc = "start_populate" /\ pc' # pc) =>
                Len(action_queue') > Len(action_queue) /\ houdini_client.state = "none"]_vars
    /\ [](houdini_client.state # "none" =>
              server = "ready" /\ client_main.env = "/tmp/adaptor.sock")

\* the subprocess has just been launched: the variable is set and the two startup actions
\* of the payload are in the queue
C35_Witness ==
    /\ pc = "start_check_running"
    /\ houdini_client.state = "running"
    /\ client_main.env = "/tmp/adaptor.sock"
    /\ server = "ready"
    /\ Len(action_queue) = 2
    /\ action_queue[1].name = "scene_file"
    /\ action_queue[2].name = "render_node"
\* C36: in a session without on_stop and on_cleanup, every start_render the client handles
\* comes after the render_node action and directly after the frame action of the same frame;
\* so every render that is made is a render of the frame that was asked for, on the node of
\* the initialization data.
C36_RenderFollowsItsFrame ==
    /\ \A i \in 1..Len(handler.handled) :
           handler.handled[i].name = "start_render" =>
               /\ \E j \in 1..(i - 1) : handler.handled[j].name = "render_node"
               /\ i > 1
               /\ handler.handled[i - 1] =
                      Action("frame", "frame" :> handler.handled[i].args["frame"])
    /\ \A i \in 1..Len(handler.renders) :
           /\ handler.renders[i].frame = handler.renders[i].asked
           /\ handler.renders[i].node = init_data["render_node"]

\* two tasks were rendered, each with its own frame, and the second on_run has returned
C36_Witness ==
    /\ pc = "idle"
    /\ outcome = Returned("on_run")
    /\ Len(handler.renders) = 2
    /\ handler.renders[1].frame # handler.renders[2].frame
    /\ handler.renders[2].asked = run_frame
\* the client performs a start_render action in this step
PerformsStartRender ==
    /\ handler' # handler
    /\ Len(action_queue) > 0
    /\ Head(action_queue).name = "start_render"

\* C37: the completion marker is printed only by a start_render that did not raise, after
\* its call of render has returned; a start_render that raises makes no render and prints
\* no marker; so there are never more markers than renders.
C37_MarkerOnlyAfterRender ==
    /\ [][/\ handler'.printed # handler.printed =>
                /\ PerformsStartRender
                /\ handler'.printed = handler.printed + 1
                /\ Len(handler'.renders) = Len(handler.renders) + 1
                /\ handler'.error = NoException
          /\ (PerformsStartRender /\ handler'.error # NoException) =>
                /\ handler'.renders = handler.renders
                /\ handler'.printed = handler.printed]_vars
    /\ [](handler.printed = Len(handler.renders))

\* start_render has raised because no render node was set: nothing was rendered and no
\* marker was printed
C37_Witness ==
    /\ Len(handler.handled) > 0
    /\ handler.handled[Len(handler.handled)].name = "start_render"
    /\ handler.error.type = "TypeError"
    /\ handler.node = "None"
    /\ handler.renders = <<>>
    /\ handler.printed = 0

\* C37: start_render has raised because the wedge number is out of range
C37_WedgeWitness ==
    /\ Len(handler.handled) > 0
    /\ handler.handled[Len(handler.handled)].name = "start_render"
    /\ handler.error.type = "ValueError"
    /\ handler.wedgenum = <<2>>
    /\ handler.printed = 0
\* C38: start_render applies a wedge only when a wedge node and a wedge number have both
\* been set; with a wedge node set and no wedge number ever set (and a render node and a
\* frame set) it does not raise, so it fails only if the render itself fails, and the render
\* it makes is unwedged.
C38_NoWedgeWithoutNumber ==
    [][/\ (Len(handler'.renders) > Len(handler.renders)
           /\ handler'.renders[Len(handler'.renders)].wedge >= 0) =>
              handler.wedge # "None" /\ handler.wedgenum # <<>>
       /\ (PerformsStartRender /\ handler.node # "None" /\ handler.frame # <<>>
           /\ handler.wedge # "None" /\ handler.wedgenum = <<>>) =>
              /\ handler'.error.type \in {"None", "OperationFailed"}
              /\ handler'.error = NoException =>
                     /\ Len(handler'.renders) = Len(handler.renders) + 1
                     /\ handler'.renders[Len(handler'.renders)].wedge = 0 - 1]_vars

\* C39: once the rule list exists it is completion, progress, the fatal-error rule only
\* when strict_error_checking is true, license-error, version, in this order, and no later
\* request or step of the session changes it.
C39_RuleListOrderedAndCached ==
    /\ [][regex_callbacks # <<>> => regex_callbacks' = regex_callbacks]_vars
    /\ [](regex_callbacks # <<>> =>
            regex_callbacks = IF Strict
                              THEN <<"_handle_complete", "_handle_progress", "_handle_error",
                                     "_handle_license_error", "_handle_houdini_version">>
                              ELSE <<"_handle_complete", "_handle_progress",
                                     "_handle_license_error", "_handle_houdini_version">>)

\* a strict session that launched the subprocess, so the list was asked for at the launch
C39_Witness ==
    /\ Strict
    /\ houdini_client.state # "none"
    /\ Len(regex_callbacks) = 5
    /\ pc = "idle"
    /\ outcome = Returned("on_start")

\* a session without strict_error_checking whose list was made by a request before the launch
C39_EarlyWitness ==
    /\ ~Strict
    /\ ~started
    /\ Len(regex_callbacks) = 4

\* C40: on the same timeline the legacy and the current on_start end with the same kind of
\* outcome, and each returns normally only with its queue empty.
C40_VariantsAgreeOnStart ==
    /\ (pc = "idle" /\ legacy.pc = "done") => outcome.type = legacy.outcome.type
    /\ pc = "idle" /\ outcome = Returned("on_start") => action_queue = <<>>
    /\ legacy.pc = "done" /\ legacy.outcome = Returned("on_start")
           => legacy.action_queue = <<>>
================================================================================
